---- MODULE Spec2Model ----
(***************************************************************************)
(* A model of the TODO backend: the User and Task entities (validated      *)
(* factories, immutable updates, serialization), the two Drizzle           *)
(* repositories over the users and tasks tables, the pagination and text   *)
(* search query builders, and the create / update workflows.               *)
(*                                                                         *)
(* Strings are sequences of one-character strings, dates are integers      *)
(* (epoch milliseconds) with InvalidDate standing for new Date(NaN), and   *)
(* an in-memory entity instance is a slot of the sequence heap, its        *)
(* reference being the slot's index.                                       *)
(***************************************************************************)
EXTENDS Integers, Sequences, FiniteSets, TLC

VARIABLES
    heap,     \* entity instances in memory; a reference is an index
    origin,   \* history: origin[ref] is the record create() was given for ref
    users,    \* the users table: id -> row
    tasks,    \* the tasks table: id -> row
    now,      \* the wall clock read by new Date()
    focus,    \* the entity kind whose repository and workflows the run exercises
    last,     \* the last call: operation, arguments and result
    scan,     \* history: the pages read so far of the query being read
    removed,  \* history: the ids deleted with success and not added since
    flight    \* the calls in flight: per caller, its position and what it has read

vars == <<heap, origin, users, tasks, now, focus, last, scan, removed, flight>>

----------------------------------------------------------------------------
(* Bounds of the model *)

MaxHeap == 3
MaxClock == 1
MaxRows == 2

----------------------------------------------------------------------------
(* Values *)

Rep(c, n) == [i \in 1..n |-> c]

HyphenAt == {9, 14, 19, 24}
HexAt == (1..36) \ HyphenAt

Uuid(c) == [i \in 1..36 |-> IF i \in HyphenAt THEN "-" ELSE c]

HexChars == {"0", "1", "2", "3", "4", "5", "6", "7", "8", "9",
             "a", "b", "c", "d", "e", "f", "A", "B", "C", "D", "E", "F"}

\* UUID_PATTERN.test(s)
IsUUID(s) ==
    /\ Len(s) = 36
    /\ \A i \in HyphenAt : s[i] = "-"
    /\ \A i \in HexAt : s[i] \in HexChars

InvalidDate == 0 - 1

\* !isNaN(date.getTime())
ValidDate(d) == d # InvalidDate

JsNull == [t |-> "null"]
JsUndefined == [t |-> "undefined"]
JsStr(s) == [t |-> "string", v |-> s]

None == [tag |-> "None"]
Some(v) == [tag |-> "Some", value |-> v]

TaskStatus == {"TODO", "IN_PROGRESS", "DONE"}

Ok(v) == [ok |-> TRUE, val |-> v]

\* the error classes of base.errors.ts; tag is the concrete class, class the
\* base class it extends
ParseErr(field, value) ==
    [ok |-> FALSE, tag |-> "ParseError", class |-> "ParseError",
     field |-> field, value |-> value]
ValidationErr(tag, message, field, value) ==
    [ok |-> FALSE, tag |-> tag, class |-> "ValidationError",
     message |-> message, field |-> field, value |-> value]
QueryErr(message) ==
    [ok |-> FALSE, tag |-> "QueryError", class |-> "QueryError", message |-> message]
NotFoundErr(tag, message) ==
    [ok |-> FALSE, tag |-> tag, class |-> "NotFoundError", message |-> message]
MutationErr(tag, operation, message, entity, id) ==
    [ok |-> FALSE, tag |-> tag, class |-> "MutationError", operation |-> operation,
     message |-> message, entity |-> entity, id |-> id]

\* error instanceof QueryError (NotFoundError extends QueryError)
IsQueryError(e) == e.class \in {"QueryError", "NotFoundError"}
\* error instanceof NotFoundError
IsNotFoundError(e) == e.class = "NotFoundError"
\* error instanceof MutationError
IsMutationError(e) == e.class = "MutationError"

----------------------------------------------------------------------------
(* Guards *)

NameMax == 255
TitleMax == 255
DescriptionMin == 50
DescriptionMax == 1000

validateName(s) == Len(s) > 0 /\ Len(s) < NameMax
validateEmail(s) == Len(s) > 0 /\ Len(s) < NameMax
validatePassword(s) == Len(s) > 0 /\ Len(s) < NameMax
validateTitle(s) == Len(s) > 0 /\ Len(s) <= TitleMax
validateDescription(s) == Len(s) >= DescriptionMin /\ Len(s) <= DescriptionMax

----------------------------------------------------------------------------
(* Optional(schema): the nullish-or-value transformation *)

\* decode: null and undefined become None, anything else goes through the
\* value schema (a string of 50..1000 characters here)
OptionalDecode(input) ==
    IF input = JsNull \/ input = JsUndefined THEN Ok(None)
    ELSE IF "t" \in DOMAIN input /\ input.t = "string" /\ validateDescription(input.v)
    THEN Ok(Some(input.v))
    ELSE ParseErr("description", input)

OptionalEncodeUndefined(option) ==
    IF option = None THEN JsUndefined ELSE JsStr(option.value)

\* encode: None becomes onNoneEncoding, which Optional fixes to null
OptionalEncode(option) ==
    IF option = None THEN JsNull ELSE JsStr(option.value)

----------------------------------------------------------------------------
(* Schemas *)

UserSchemaDecode(r) ==
    IF /\ IsUUID(r.id)
       /\ validateName(r.name)
       /\ validateEmail(r.email)
       /\ validatePassword(r.password)
       /\ ValidDate(r.createdAt)
       /\ ValidDate(r.updatedAt)
    THEN Ok([kind |-> "User", id |-> r.id, name |-> r.name, email |-> r.email,
             password |-> r.password, createdAt |-> r.createdAt,
             updatedAt |-> r.updatedAt])
    ELSE ParseErr("user", r)

UserSchemaEncode(e) ==
    [id |-> e.id, name |-> e.name, email |-> e.email, password |-> e.password,
     createdAt |-> e.createdAt, updatedAt |-> e.updatedAt]

TaskSchemaDecode(r) ==
    IF /\ IsUUID(r.id)
       /\ validateTitle(r.title)
       /\ OptionalDecode(r.description).ok
       /\ r.status \in TaskStatus
       /\ IsUUID(r.assigneeId)
       /\ ValidDate(r.createdAt)
       /\ ValidDate(r.updatedAt)
    THEN Ok([kind |-> "Task", id |-> r.id, title |-> r.title,
             description |-> OptionalDecode(r.description).val,
             status |-> r.status, assigneeId |-> r.assigneeId,
             createdAt |-> r.createdAt, updatedAt |-> r.updatedAt])
    ELSE ParseErr("task", r)

TaskSchemaEncode(e) ==
    [id |-> e.id, title |-> e.title, description |-> OptionalEncode(e.description),
     status |-> e.status, assigneeId |-> e.assigneeId,
     createdAt |-> e.createdAt, updatedAt |-> e.updatedAt]

----------------------------------------------------------------------------
(* Entities *)

\* E.mapError with a function that ignores the error it is given: a success
\* passes, every failure becomes the error e
MapError(r, e) == IF r.ok THEN r ELSE e

\* User.create: decode, or a UserValidationError naming "user" and the input
UserCreate(input) ==
    MapError(UserSchemaDecode(input),
             ValidationErr("UserValidationError", "Failed to create User entity", "user", input))

\* Task.create: decode, or a TaskValidationError naming "task" and the input
TaskCreate(input) ==
    MapError(TaskSchemaDecode(input),
             ValidationErr("TaskValidationError", "Failed to create Task entity", "task", input))

EntityCreate(kind, input) ==
    IF kind = "User" THEN UserCreate(input) ELSE TaskCreate(input)

\* serialized(): encode the instance through its schema
Serialized(e) ==
    IF e.kind = "User" THEN UserSchemaEncode(e) ELSE TaskSchemaEncode(e)

ConstructInPlace(h, recv, data) ==
    IF recv = 0 THEN [heap |-> Append(h, data), ref |-> Len(h) + 1]
    ELSE [heap |-> [h EXCEPT ![recv] = data], ref |-> recv]

\* new User(data) / new Task(data): a fresh instance; recv is the instance
\* whose update method runs the constructor, 0 for a plain create
Construct(h, recv, data) ==
    [heap |-> Append(h, data), ref |-> Len(h) + 1]

\* the spliced record an update method hands to create
Splice(e, field, value, date) ==
    [Serialized(e) EXCEPT ![field] = value, !.updatedAt = date]

UpdateErrorTag(kind) ==
    IF kind = "User" THEN "UserValidationError" ELSE "TaskValidationError"

EntityUpdateOnChange(e, field, value, date) ==
    IF e[field] = value
    THEN ValidationErr(UpdateErrorTag(e.kind), "Failed to update", field, value)
    ELSE MapError(EntityCreate(e.kind, Splice(e, field, value, date)),
                  ValidationErr(UpdateErrorTag(e.kind), "Failed to update", field, value))

\* updateName / updateEmail / updatePassword / updateTitle / updateDescription /
\* updateStatus: every failure is re-mapped to an error naming the field
EntityUpdate(e, field, value, date) ==
    MapError(EntityCreate(e.kind, Splice(e, field, value, date)),
             ValidationErr(UpdateErrorTag(e.kind), "Failed to update", field, value))

----------------------------------------------------------------------------
(* Inputs of the entity operations *)

U1 == Uuid("1")
U2 == Uuid("2")
T1 == Uuid("a")
T2 == Uuid("B")
BadId == <<"b", "a", "d">>

NameA == <<"a">>
NameB == <<"b">>
Empty == <<>>
Mail == <<"m", "@", "x", ".", "y">>
Pass == <<"p", "w">>

Desc50 == <<"A", "b">> \o Rep("x", 48)
Desc49 == Rep("x", 49)

ValidUser ==
    [id |-> U1, name |-> NameA, email |-> Mail, password |-> Pass,
     createdAt |-> 0, updatedAt |-> 0]

ValidTask ==
    [id |-> T1, title |-> <<"A", "b">>, description |-> JsNull, status |-> "TODO",
     assigneeId |-> U1, createdAt |-> 0, updatedAt |-> 0]

UserInputs ==
    {ValidUser,
     [ValidUser EXCEPT !.id = BadId],
     [ValidUser EXCEPT !.name = Empty],
     [ValidUser EXCEPT !.createdAt = InvalidDate]}

TaskInputs ==
    {ValidTask,
     [ValidTask EXCEPT !.description = JsUndefined],
     [ValidTask EXCEPT !.description = JsStr(Desc50)],
     [ValidTask EXCEPT !.description = JsStr(Desc49)],
     [ValidTask EXCEPT !.title = Empty],
     [ValidTask EXCEPT !.status = "BOGUS"]}

UserUpdates ==
    {<<"name", NameB>>, <<"name", Empty>>, <<"email", <<"e">> >>, <<"password", <<"q">> >>}

TaskUpdates ==
    {<<"title", <<"b">> >>, <<"title", Empty>>,
     <<"description", JsUndefined>>, <<"description", JsStr(Desc50)>>,
     <<"description", JsStr(Desc49)>>,
     <<"status", "DONE">>}

NoCall == [op |-> "none"]
NoScan == [kind |-> "none"]
NoFlight == <<>>

----------------------------------------------------------------------------
(* Entity operations as steps *)

\* User.create(input) / Task.create(input); a run follows the instances
\* derived from one created entity
CreateEntity(kind, input) ==
    /\ heap = <<>>
    /\ LET res == EntityCreate(kind, input)
           c == Construct(heap, 0, res.val)
       IN  IF res.ok
           THEN /\ heap' = c.heap
                /\ origin' = Append(origin, input)
                /\ last' = [op |-> "create", kind |-> kind, input |-> input,
                            ok |-> TRUE, ref |-> c.ref]
           ELSE /\ UNCHANGED <<heap, origin>>
                /\ last' = [op |-> "create", kind |-> kind, input |-> input,
                            ok |-> FALSE, err |-> res]
    /\ UNCHANGED <<users, tasks, now, focus, flight, scan, removed>>

\* e.serialized()
SerializeEntity(ref) ==
    /\ last' = [op |-> "serialized", recv |-> ref, out |-> Serialized(heap[ref])]
    /\ UNCHANGED <<heap, origin, users, tasks, now, focus, flight, scan, removed>>

\* e.updateName(v), e.updateTitle(v), ...
UpdateEntity(ref, field, value) ==
    /\ Len(heap) < MaxHeap
    /\ LET e == heap[ref]
           res == EntityUpdate(e, field, value, now)
           c == Construct(heap, ref, res.val)
       IN  IF res.ok
           THEN /\ heap' = c.heap
                /\ origin' = IF c.ref > Len(origin)
                             THEN Append(origin, Splice(e, field, value, now))
                             ELSE [origin EXCEPT ![c.ref] = Splice(e, field, value, now)]
                /\ last' = [op |-> "update", recv |-> ref, field |-> field,
                            value |-> value, ok |-> TRUE, ref |-> c.ref]
           ELSE /\ UNCHANGED <<heap, origin>>
                /\ last' = [op |-> "update", recv |-> ref, field |-> field,
                            value |-> value, ok |-> FALSE, err |-> res]
    /\ UNCHANGED <<users, tasks, now, focus, flight, scan, removed>>

\* time passes
Tick ==
    /\ now < MaxClock
    /\ now' = now + 1
    /\ UNCHANGED <<heap, origin, users, tasks, focus, flight, last, scan, removed>>

EntityInit ==
    /\ heap = <<>>
    /\ origin = <<>>
    /\ users = <<>>
    /\ tasks = <<>>
    /\ now = 0
    /\ focus = "Entity"
    /\ last = NoCall
    /\ scan = NoScan
    /\ removed = {}
    /\ flight = NoFlight

EntityNext ==
    \/ \E input \in UserInputs : CreateEntity("User", input)
    \/ \E input \in TaskInputs : CreateEntity("Task", input)
    \/ \E ref \in 1..Len(heap) : SerializeEntity(ref)
    \/ \E ref \in 1..Len(heap) : \E u \in UserUpdates :
          heap[ref].kind = "User" /\ UpdateEntity(ref, u[1], u[2])
    \/ \E ref \in 1..Len(heap) : \E u \in TaskUpdates :
          heap[ref].kind = "Task" /\ UpdateEntity(ref, u[1], u[2])
    \/ Tick

EntitySpec == EntityInit /\ [][EntityNext]_vars

----------------------------------------------------------------------------
(* The relational store, as the repositories use it *)

EmptyTable == [id \in {} |-> id]

NoId == <<>>

\* the environment decides which store call of an operation rejects: the
\* nth call rejects when fail = n, none when fail = 0
Rejects(fail, n) == fail = n

\* db.insert(table).values(row); the primary key refuses a second row with the id
DbInsert(table, row) ==
    IF row.id \in DOMAIN table THEN [ok |-> FALSE, table |-> table]
    ELSE [ok |-> TRUE,
          table |-> [id \in DOMAIN table \cup {row.id} |->
                        IF id = row.id THEN row ELSE table[id]]]

\* db.update(table).set(row).where(eq(table.id, id)); matching no row is no error
DbUpdate(table, id, row) ==
    [i \in DOMAIN table |-> IF i = id THEN row ELSE table[i]]

\* db.delete(table).where(eq(table.id, id))
DbDelete(table, id) ==
    [i \in DOMAIN table \ {id} |-> table[i]]

----------------------------------------------------------------------------
(* UserDrizzleRepository *)

UserFromDbRow(row) ==
    MapError(UserCreate(row),
             MutationErr("DeserializationError", "add",
                         "Failed to deserialize user from database", "User", NoId))

\* the flatMap after the select of fetchById: the row's entity, or the
\* QueryError of a row that does not deserialize
Selected(entity, message) ==
    [res |-> IF entity.ok THEN Ok(Some(entity.val)) ELSE QueryErr(message),
     calls |-> <<"select">>]

\* fetchById: a malformed id is answered with none without a query; the select
\* is the nth store call of the operation
UserFetchById(table, id, fail, n) ==
    IF ~IsUUID(id) THEN [res |-> Ok(None), calls |-> <<>>]
    ELSE IF Rejects(fail, n)
    THEN [res |-> QueryErr("Failed to fetch user by id"), calls |-> <<"select">>]
    ELSE IF id \notin DOMAIN table THEN [res |-> Ok(None), calls |-> <<"select">>]
    ELSE Selected(UserFromDbRow(table[id]), "Failed to deserialize user")

\* the mapError closing ensureExists: a QueryError passes
UserExistenceError(e) ==
    IF IsQueryError(e) THEN e ELSE QueryErr("Failed to check user existence")

\* the flatMap of ensureExists over the fetch f: none becomes a
\* UserNotFoundError
UserExists(f) ==
    [res |-> IF ~f.res.ok THEN UserExistenceError(f.res)
             ELSE IF f.res.val = None
             THEN UserExistenceError(NotFoundErr("UserNotFoundError", "User not found"))
             ELSE Ok(TRUE),
     calls |-> f.calls]

UserEnsureExists(table, id, fail, n) == UserExists(UserFetchById(table, id, fail, n))

\* the mapError closing add / update / deleteById: a UserMutationError or a
\* SerializationError passes, anything else becomes a UserMutationError of
\* that operation
UserMapMutationError(e, operation, message, id) ==
    IF e.tag \in {"UserMutationError", "SerializationError"} THEN e
    ELSE MutationErr("UserMutationError", operation, message, "User", id)

\* the store's answer to the insert of add
UserInserted(insert, table, entity) ==
    IF ~insert.ok
    THEN [res |-> UserMapMutationError(
                     MutationErr("UserMutationError", "add", "Failed to add user",
                                 "User", entity.id),
                     "add", "Failed to add user", entity.id),
          table |-> table, calls |-> <<"insert">>]
    ELSE [res |-> Ok(entity), table |-> insert.table, calls |-> <<"insert">>]

UserRepoAdd(table, entity, fail) ==
    UserInserted(IF Rejects(fail, 1) THEN [ok |-> FALSE, table |-> table]
                 ELSE DbInsert(table, Serialized(entity)),
                 table, entity)

\* update that writes whatever ensureExists answered
UserUpdateRowRegardless(ex, table, entity, fail) ==
    IF Rejects(fail, Len(ex.calls) + 1)
    THEN [res |-> MutationErr("UserMutationError", "update", "Failed to update user",
                              "User", entity.id),
          table |-> table, calls |-> ex.calls \o <<"update">>]
    ELSE [res |-> Ok(entity),
          table |-> DbUpdate(table, entity.id, Serialized(entity)),
          calls |-> ex.calls \o <<"update">>]

\* update after ensureExists answered ex: serialize, db.update, then the
\* closing mapError
UserUpdateRow(ex, table, entity, fail) ==
    IF ~ex.res.ok
    THEN [res |-> UserMapMutationError(ex.res, "update", "Failed to update user",
                                       entity.id),
          table |-> table, calls |-> ex.calls]
    ELSE IF Rejects(fail, Len(ex.calls) + 1)
    THEN [res |-> MutationErr("UserMutationError", "update", "Failed to update user",
                              "User", entity.id),
          table |-> table, calls |-> ex.calls \o <<"update">>]
    ELSE [res |-> Ok(entity),
          table |-> DbUpdate(table, entity.id, Serialized(entity)),
          calls |-> ex.calls \o <<"update">>]

UserRepoUpdate(table, entity, fail) ==
    UserUpdateRow(UserEnsureExists(table, entity.id, fail, 1), table, entity, fail)

\* deleteById after fetchById answered f: fail on none, db.delete, then the
\* closing mapError
UserDeleteRow(f, table, id, fail) ==
    IF ~f.res.ok
    THEN [res |-> UserMapMutationError(f.res, "remove", "Failed to delete user", id),
          table |-> table, calls |-> f.calls]
    ELSE IF f.res.val = None
    THEN [res |-> MutationErr("UserMutationError", "remove", "User not found",
                              "User", id),
          table |-> table, calls |-> f.calls]
    ELSE IF Rejects(fail, Len(f.calls) + 1)
    THEN [res |-> MutationErr("UserMutationError", "remove", "Failed to delete user",
                              "User", id),
          table |-> table, calls |-> f.calls \o <<"delete">>]
    ELSE [res |-> Ok(f.res.val.value), table |-> DbDelete(table, id),
          calls |-> f.calls \o <<"delete">>]

UserRepoDeleteById(table, id, fail) ==
    UserDeleteRow(UserFetchById(table, id, fail, 1), table, id, fail)

----------------------------------------------------------------------------
(* TaskDrizzleRepository *)

TaskFromDbRow(row) ==
    MapError(TaskCreate(row),
             MutationErr("DeserializationError", "add",
                         "Failed to deserialize task from database", "Task", NoId))

\* fetchById: the select is always issued; the uuid column rejects a
\* malformed id
TaskFetchById(table, id, fail, n) ==
    IF Rejects(fail, n) \/ ~IsUUID(id)
    THEN [res |-> QueryErr("Failed to fetch task by id"), calls |-> <<"select">>]
    ELSE IF id \notin DOMAIN table THEN [res |-> Ok(None), calls |-> <<"select">>]
    ELSE Selected(TaskFromDbRow(table[id]), "Failed to deserialize task")

\* the flatMap and the mapError of ensureExists over the fetch f: none, and a
\* failed fetch, both become a TaskMutationError of the update operation
TaskExists(f, id) ==
    [res |-> IF ~f.res.ok
             THEN MutationErr("TaskMutationError", "update",
                              "Failed to check task existence", "Task", id)
             ELSE IF f.res.val = None
             THEN MutationErr("TaskMutationError", "update", "Task not found",
                              "Task", id)
             ELSE Ok(TRUE),
     calls |-> f.calls]

TaskEnsureExists(table, id, fail, n) == TaskExists(TaskFetchById(table, id, fail, n), id)

TaskMapMutationError(e, operation, message, id) ==
    IF e.tag \in {"TaskMutationError", "SerializationError"} THEN e
    ELSE MutationErr("TaskMutationError", operation, message, "Task", id)

\* the store's answer to the insert of add; add has no closing mapError
TaskInserted(insert, table, entity) ==
    IF ~insert.ok
    THEN [res |-> MutationErr("TaskMutationError", "add", "Failed to add task",
                              "Task", entity.id),
          table |-> table, calls |-> <<"insert">>]
    ELSE [res |-> Ok(entity), table |-> insert.table, calls |-> <<"insert">>]

TaskRepoAdd(table, entity, fail) ==
    TaskInserted(IF Rejects(fail, 1) THEN [ok |-> FALSE, table |-> table]
                 ELSE DbInsert(table, Serialized(entity)),
                 table, entity)

TaskUpdateRow(ex, table, entity, fail) ==
    IF ~ex.res.ok
    THEN [res |-> TaskMapMutationError(ex.res, "update", "Failed to update task",
                                       entity.id),
          table |-> table, calls |-> ex.calls]
    ELSE IF Rejects(fail, Len(ex.calls) + 1)
    THEN [res |-> MutationErr("TaskMutationError", "update", "Failed to update task",
                              "Task", entity.id),
          table |-> table, calls |-> ex.calls \o <<"update">>]
    ELSE [res |-> Ok(entity),
          table |-> DbUpdate(table, entity.id, Serialized(entity)),
          calls |-> ex.calls \o <<"update">>]

TaskRepoUpdate(table, entity, fail) ==
    TaskUpdateRow(TaskEnsureExists(table, entity.id, fail, 1), table, entity, fail)

TaskDeleteRow(f, table, id, fail) ==
    IF ~f.res.ok
    THEN [res |-> TaskMapMutationError(f.res, "remove", "Failed to delete task", id),
          table |-> table, calls |-> f.calls]
    ELSE IF f.res.val = None
    THEN [res |-> MutationErr("TaskMutationError", "remove", "Task not found",
                              "Task", id),
          table |-> table, calls |-> f.calls]
    ELSE IF Rejects(fail, Len(f.calls) + 1)
    THEN [res |-> MutationErr("TaskMutationError", "remove", "Failed to delete task",
                              "Task", id),
          table |-> table, calls |-> f.calls \o <<"delete">>]
    ELSE [res |-> Ok(f.res.val.value), table |-> DbDelete(table, id),
          calls |-> f.calls \o <<"delete">>]

\* deleteById written over ensureExists, whose errors name the update
TaskRepoDeleteByIdEnsuring(table, id, fail) ==
    IF ~TaskEnsureExists(table, id, fail, 1).res.ok
    THEN [res |-> TaskEnsureExists(table, id, fail, 1).res, table |-> table,
          calls |-> <<"select">>]
    ELSE TaskDeleteRow(TaskFetchById(table, id, fail, 1), table, id, fail)

TaskRepoDeleteById(table, id, fail) ==
    TaskDeleteRow(TaskFetchById(table, id, fail, 1), table, id, fail)

----------------------------------------------------------------------------
(* Pagination and text search: query-builders.ts *)

MaxPage == 3
MaxLimit == 2

\* a JavaScript number that is the result of Math.ceil(total / limit)
Finite(n) == [kind |-> "finite", n |-> n]
Infinity == [kind |-> "Infinity"]
NaN == [kind |-> "NaN"]

\* Math.ceil(total / limit), for total >= 0
MathFloorDiv(total, limit) ==
    IF limit = 0 THEN (IF total = 0 THEN NaN ELSE Infinity)
    ELSE IF limit > 0 THEN Finite(total \div limit)
    ELSE Finite(0 - ((total + (0 - limit) - 1) \div (0 - limit)))

MathCeilDiv(total, limit) ==
    IF limit = 0 THEN (IF total = 0 THEN NaN ELSE Infinity)
    ELSE IF limit > 0 THEN Finite((total + limit - 1) \div limit)
    ELSE Finite(0 - (total \div (0 - limit)))

\* page < totalPages, as JavaScript compares numbers
JsLess(page, number) ==
    CASE number.kind = "finite" -> page < number.n
      [] number.kind = "Infinity" -> TRUE
      [] number.kind = "NaN" -> FALSE

calculateOffset(page, limit) == (page - 1) * limit

buildPaginationMeta(page, limit, total) ==
    [page |-> page, limit |-> limit, total |-> total,
     totalPages |-> MathCeilDiv(total, limit),
     hasNext |-> JsLess(page, MathCeilDiv(total, limit)),
     hasPrev |-> page > 1]

\* the SQL operator LIKE: % matches any run of characters, _ any one character
RECURSIVE Like(_, _)
Like(s, pattern) ==
    IF pattern = <<>> THEN s = <<>>
    ELSE IF Head(pattern) = "%"
    THEN Like(s, Tail(pattern)) \/ (s # <<>> /\ Like(Tail(s), pattern))
    ELSE s # <<>> /\ (Head(pattern) = "_" \/ Head(pattern) = Head(s))
                  /\ Like(Tail(s), Tail(pattern))

\* like(column, pattern) on a column value; NULL LIKE pattern is not true
ColumnLike(value, pattern) ==
    IF value = JsNull THEN FALSE ELSE Like(value.v, pattern)

\* buildTextSearchFilter: no condition without a text, else
\* title LIKE %text% OR description LIKE %text%
buildTextSearchFilter(row, text) ==
    IF text = JsUndefined \/ text = JsNull THEN None
    ELSE Some(ColumnLike(JsStr(row.title), <<"%">> \o text.v \o <<"%">>)
              \/ ColumnLike(row.description, <<"%">> \o text.v \o <<"%">>))

\* flattenConditions then and(...): the conjunction of the conditions present
flattenConditions(conditions) ==
    \A i \in 1..Len(conditions) : conditions[i] = None \/ conditions[i].value

\* LIMIT limit OFFSET offset over the ordered rows
Page(order, limit, offset) ==
    SubSeq(order, offset + 1,
           IF offset + limit < Len(order) THEN offset + limit ELSE Len(order))

\* the sequences into which ORDER BY may put a set of rows: every row once,
\* no row before one that the ordering puts strictly first
Orderings(rows, before) ==
    {s \in [1..Cardinality(rows) -> rows] :
        /\ \A r \in rows : \E i \in DOMAIN s : s[i] = r
        /\ \A i, j \in DOMAIN s : i < j => <<s[j], s[i]>> \notin before}

HexDigits == <<"0", "1", "2", "3", "4", "5", "6", "7", "8", "9",
               "a", "b", "c", "d", "e", "f">>
HexUpper == <<"0", "1", "2", "3", "4", "5", "6", "7", "8", "9",
              "A", "B", "C", "D", "E", "F">>
HexValue(c) == CHOOSE k \in 0..15 : HexDigits[k + 1] = c \/ HexUpper[k + 1] = c

\* the order of the uuid column type: by value, hyphens and case aside
UuidLess(a, b) ==
    \E i \in (1..36) \ HyphenAt :
        /\ HexValue(a[i]) < HexValue(b[i])
        /\ \A j \in (1..i - 1) \ HyphenAt : HexValue(a[j]) = HexValue(b[j])

\* orderBy(desc(users.createdAt), desc(users.id))
UserBefore(a, b) ==
    a.createdAt > b.createdAt \/ (a.createdAt = b.createdAt /\ UuidLess(b.id, a.id))

\* orderBy(desc(tasks.createdAt))
TaskBefore(a, b) == a.createdAt > b.createdAt

Rows(table) == {table[id] : id \in DOMAIN table}

\* orderBy(desc(users.createdAt), desc(users.id)) over a set of rows
UserOrderBy(rows) == {p \in rows \X rows : UserBefore(p[1], p[2])}

\* orderBy(desc(tasks.createdAt)) over a set of rows
TaskOrderBy(rows) == {p \in rows \X rows : TaskBefore(p[1], p[2])}

\* fetchPaginated: the count query, then the data query in the order the
\* store chose, then fromDbRow on every row and the metadata
UserFetchPaginated(table, options, order, fail) ==
    LET offset == calculateOffset(options.page, options.limit)
        total == Cardinality(DOMAIN table)
        rows == Page(order, options.limit, offset)
    IN  IF Rejects(fail, 1)
        THEN [res |-> QueryErr("Failed to count users"), calls |-> <<"count">>,
              offset |-> offset]
        ELSE IF Rejects(fail, 2) \/ options.limit < 0 \/ offset < 0
        THEN [res |-> QueryErr("Failed to fetch paginated users"),
              calls |-> <<"count", "select">>, offset |-> offset]
        ELSE IF \E i \in DOMAIN rows : ~UserFromDbRow(rows[i]).ok
        THEN [res |-> MutationErr("DeserializationError", "add",
                                  "Failed to deserialize users", "User", NoId),
              calls |-> <<"count", "select">>, offset |-> offset]
        ELSE [res |-> Ok([data |-> [i \in DOMAIN rows |-> UserFromDbRow(rows[i]).val],
                          pagination |->
                              buildPaginationMeta(options.page, options.limit, total)]),
              calls |-> <<"count", "select">>, offset |-> offset]

\* the WHERE clause of search: the text condition is the only one built
TaskWhere(row, params) ==
    flattenConditions(<<buildTextSearchFilter(row, params.text)>>)

Matching(table, params) == {r \in Rows(table) : TaskWhere(r, params)}

\* search: as fetchPaginated, over the rows the WHERE clause keeps
TaskSearch(table, params, order, fail) ==
    LET offset == calculateOffset(params.page, params.limit)
        total == Cardinality(Matching(table, params))
        rows == Page(order, params.limit, offset)
    IN  IF Rejects(fail, 1)
        THEN [res |-> QueryErr("Failed to count tasks"), calls |-> <<"count">>,
              offset |-> offset]
        ELSE IF Rejects(fail, 2) \/ params.limit < 0 \/ offset < 0
        THEN [res |-> QueryErr("Failed to search tasks"),
              calls |-> <<"count", "select">>, offset |-> offset]
        ELSE IF \E i \in DOMAIN rows : ~TaskFromDbRow(rows[i]).ok
        THEN [res |-> QueryErr("Failed to deserialize tasks"),
              calls |-> <<"count", "select">>, offset |-> offset]
        ELSE [res |-> Ok([data |-> [i \in DOMAIN rows |-> TaskFromDbRow(rows[i]).val],
                          pagination |->
                              buildPaginationMeta(params.page, params.limit, total)]),
              calls |-> <<"count", "select">>, offset |-> offset]

----------------------------------------------------------------------------
(* Paginated reads over a store that does not change *)

UserIdChars == <<"1", "2", "3", "4">>
TaskIdChars == <<"a", "B", "c", "D">>
UserIds == {Uuid(UserIdChars[i]) : i \in 1..MaxRows}
TaskIds == {Uuid(TaskIdChars[i]) : i \in 1..MaxRows}

Value(v) == [t |-> "value", v |-> v]

UserRow(id, createdAt) ==
    [ValidUser EXCEPT !.id = id, !.createdAt = createdAt, !.updatedAt = createdAt]

\* every users table of at most MaxRows rows
UserStores ==
    UNION {{[id \in D |-> UserRow(id, c[id])] : c \in [D -> 0..MaxClock]} :
              D \in SUBSET UserIds}

TaskRow(id, title, description, status, assigneeId, createdAt) ==
    [id |-> id, title |-> title, description |-> description, status |-> status,
     assigneeId |-> assigneeId, createdAt |-> createdAt, updatedAt |-> createdAt]

\* the rows a task id may hold: two of one creation time, one later
TaskRowsOf(id) ==
    {TaskRow(id, <<"A", "b">>, JsNull, "TODO", U1, 0),
     TaskRow(id, <<"b">>, JsStr(Desc50), "DONE", U2, 0),
     TaskRow(id, <<"a", "b">>, JsNull, "TODO", U1, MaxClock)}

TaskStores ==
    UNION {{t \in [D -> UNION {TaskRowsOf(id) : id \in D}] :
               \A id \in D : t[id] \in TaskRowsOf(id)} : D \in SUBSET TaskIds}

PageOptions == [page : 0..MaxPage, limit : (0 - 1)..MaxLimit]

NoFilter ==
    [text |-> JsUndefined, status |-> JsUndefined, assigneeId |-> JsUndefined,
     createdFrom |-> JsUndefined, createdTo |-> JsUndefined]

SearchFilters ==
    {NoFilter,
     [NoFilter EXCEPT !.text = JsStr(<<"A">>)],
     [NoFilter EXCEPT !.text = JsStr(<<"a">>)],
     [NoFilter EXCEPT !.text = JsStr(<<"x">>)],
     [NoFilter EXCEPT !.text = JsStr(<<"_">>)],
     [NoFilter EXCEPT !.status = Value({"DONE"})],
     [NoFilter EXCEPT !.status = Value({"TODO", "IN_PROGRESS"})],
     [NoFilter EXCEPT !.assigneeId = Value(U2)],
     [NoFilter EXCEPT !.createdFrom = Value(MaxClock)],
     [NoFilter EXCEPT !.createdTo = Value(0)]}

SearchParams ==
    {[page |-> o.page, limit |-> o.limit, text |-> f.text, status |-> f.status,
      assigneeId |-> f.assigneeId, createdFrom |-> f.createdFrom,
      createdTo |-> f.createdTo] : o \in PageOptions, f \in SearchFilters}

Read(op, params, r) ==
    [op |-> op, params |-> params, ok |-> r.res.ok, res |-> r.res,
     offset |-> r.offset, calls |-> r.calls]

FetchPaginatedUsers(options, fail) ==
    /\ focus = "User"
    /\ \E order \in Orderings(Rows(users), UserOrderBy(Rows(users))) :
          last' = Read("fetchPaginated", options,
                       UserFetchPaginated(users, options, order, fail))
    /\ UNCHANGED <<heap, origin, users, tasks, now, focus, flight, scan, removed>>

SearchTasks(params, fail) ==
    /\ focus = "Task"
    /\ \E order \in Orderings(Matching(tasks, params), TaskOrderBy(Matching(tasks, params))) :
          last' = Read("search", params, TaskSearch(tasks, params, order, fail))
    /\ UNCHANGED <<heap, origin, users, tasks, now, focus, flight, scan, removed>>

ReadInit ==
    /\ heap = <<>>
    /\ origin = <<>>
    /\ now = 0
    /\ last = NoCall
    /\ scan = NoScan
    /\ removed = {}
    /\ flight = NoFlight
    /\ focus \in {"User", "Task"}
    /\ users \in (IF focus = "User" THEN UserStores ELSE {EmptyTable})
    /\ tasks \in (IF focus = "Task" THEN TaskStores ELSE {EmptyTable})

\* a read changes nothing and depends on nothing but the store and its
\* parameters: one read in a behaviour, of any store, is every read
ReadNext ==
    /\ last = NoCall
    /\ \/ \E options \in PageOptions, fail \in 0..2 : FetchPaginatedUsers(options, fail)
       \/ \E params \in SearchParams, fail \in 0..2 : SearchTasks(params, fail)

ReadSpec == ReadInit /\ [][ReadNext]_vars

----------------------------------------------------------------------------
(* A client reading the pages of one query, one after another, in any order *)

\* the limit and filters of a read: what stays fixed from page to page
ScanKey(params) == [p \in DOMAIN params \ {"page"} |-> params[p]]

\* a page not yet read of the query being read, or the first page of a query
Continues(s, params) ==
    /\ params.page >= 1
    /\ params.limit >= 1
    /\ s.kind = "scan" => (s.key = ScanKey(params) /\ params.page \notin DOMAIN s.pages)

\* the pages read so far, with the rows each returned
Scanned(s, params, r) ==
    LET data == r.res.val.data
        rows == [i \in DOMAIN data |->
                    [id |-> data[i].id, createdAt |-> data[i].createdAt]]
    IN  IF s.kind = "scan"
        THEN [s EXCEPT !.pages = [p \in DOMAIN s.pages \cup {params.page} |->
                                     IF p = params.page THEN rows ELSE s.pages[p]]]
        ELSE [kind |-> "scan", key |-> ScanKey(params), limit |-> params.limit,
              total |-> r.res.val.pagination.total,
              totalPages |-> r.res.val.pagination.totalPages.n,
              pages |-> [p \in {params.page} |-> rows]]

ScanUsers(options) ==
    /\ focus = "User"
    /\ Continues(scan, options)
    /\ \E order \in Orderings(Rows(users), UserOrderBy(Rows(users))) :
          /\ last' = Read("fetchPaginated", options,
                          UserFetchPaginated(users, options, order, 0))
          /\ scan' = Scanned(scan, options,
                             UserFetchPaginated(users, options, order, 0))
    /\ UNCHANGED <<heap, origin, users, tasks, now, focus, flight, removed>>

ScanTasks(params) ==
    /\ focus = "Task"
    /\ Continues(scan, params)
    /\ \E order \in Orderings(Matching(tasks, params), TaskOrderBy(Matching(tasks, params))) :
          /\ last' = Read("search", params, TaskSearch(tasks, params, order, 0))
          /\ scan' = Scanned(scan, params, TaskSearch(tasks, params, order, 0))
    /\ UNCHANGED <<heap, origin, users, tasks, now, focus, flight, removed>>

ScanNext ==
    \/ \E options \in PageOptions : ScanUsers(options)
    \/ \E params \in SearchParams : ScanTasks(params)

ScanSpec == ReadInit /\ [][ScanNext]_vars

----------------------------------------------------------------------------
(* Workflows: task.workflows.ts and the user workflows *)

\* S.decodeUnknown(CreateUserDtoSchema): name, email, password of UserSchema
CreateUserDtoDecode(input) ==
    IF validateName(input.name) /\ validateEmail(input.email)
       /\ validatePassword(input.password)
    THEN Ok(input)
    ELSE ParseErr("dto", input)

\* a workflow that failed before its first repository call
Rejected(error, table) ==
    [res |-> error, table |-> table, repo |-> <<>>, calls |-> <<>>]

\* the mapError that follows repo.add, over the answer of add
Added(add, error) ==
    [res |-> MapError(add.res, error), table |-> add.table, repo |-> <<"add">>,
     calls |-> add.calls]

createUserAddsAnyway(table, input, id, date, fail) ==
    Added(UserRepoAdd(table, UserCreate(UserRow(id, date)).val, fail),
          ValidationErr("UserValidationError", "Failed to create user", "user", input))

\* the stamp of id and both timestamps on the decoded dto, then User.create
createUserStamp(dto, id, date) ==
    IF dto.ok
    THEN UserCreate([id |-> id, name |-> dto.val.name, email |-> dto.val.email,
                     password |-> dto.val.password, createdAt |-> date,
                     updatedAt |-> date])
    ELSE dto

\* repo.add of the entity; the mapError after User.create covers the decode
\* as well, the one after repo.add covers everything before it, so every
\* failure ends as the UserValidationError "Failed to create user"
createUserAdd(entity, table, input, fail) ==
    IF ~entity.ok
    THEN Rejected(ValidationErr("UserValidationError", "Failed to create user",
                                "user", input), table)
    ELSE Added(UserRepoAdd(table, entity.val, fail),
               ValidationErr("UserValidationError", "Failed to create user",
                             "user", input))

\* createUser: decode, stamp id and both timestamps, User.create, repo.add
createUser(table, input, id, date, fail) ==
    createUserAdd(createUserStamp(CreateUserDtoDecode(input), id, date),
                  table, input, fail)

\* the Option a description decodes to, given that it decodes
DecodedDescription(input) == OptionalDecode(input.description).val

\* S.decodeUnknown(CreateTaskDtoSchema): title, description, status,
\* assigneeId of TaskSchema; the description decodes to an Option
CreateTaskDtoDecode(input) ==
    IF /\ validateTitle(input.title)
       /\ OptionalDecode(input.description).ok
       /\ input.status \in TaskStatus
       /\ IsUUID(input.assigneeId)
    THEN Ok([input EXCEPT !.description = DecodedDescription(input)])
    ELSE ParseErr("dto", input)

\* the stamp on the decoded dto, S.encode(TaskSchema), then Task.create
createTaskStamp(dto, id, date) ==
    IF dto.ok
    THEN TaskCreate(TaskSchemaEncode(
                        [kind |-> "Task", id |-> id, title |-> dto.val.title,
                         description |-> dto.val.description,
                         status |-> dto.val.status,
                         assigneeId |-> dto.val.assigneeId,
                         createdAt |-> date, updatedAt |-> date]))
    ELSE dto

\* repo.add of the entity, each stage with its own mapError
createTaskAdd(entity, table, input, fail) ==
    IF ~entity.ok
    THEN Rejected(ValidationErr("TaskValidationError", "Invalid create task input",
                                "task", input), table)
    ELSE Added(TaskRepoAdd(table, entity.val, fail),
               ValidationErr("TaskValidationError", "Failed to create task",
                             "task", input))

\* createTask: decode, stamp, S.encode(TaskSchema), Task.create, repo.add
createTask(table, input, id, date, fail) ==
    createTaskAdd(createTaskStamp(CreateTaskDtoDecode(input), id, date),
                  table, input, fail)

\* S.decodeUnknown(UpdateUserDtoSchema): id required, the other fields of the
\* input optional
UpdateUserDtoDecode(input) ==
    IF /\ IsUUID(input.id)
       /\ "name" \in DOMAIN input => validateName(input.name)
       /\ "email" \in DOMAIN input => validateEmail(input.email)
       /\ "password" \in DOMAIN input => validatePassword(input.password)
    THEN Ok(input)
    ELSE ParseErr("dto", input)

MergeStale(current, dto, date) ==
    [f \in DOMAIN current |-> IF f \in DOMAIN dto THEN dto[f] ELSE current[f]]

MergeRestamped(current, dto, date) ==
    [f \in DOMAIN current |->
        IF f \in {"createdAt", "updatedAt"} THEN date
        ELSE IF f \in DOMAIN dto THEN dto[f] ELSE current[f]]

\* { ...current, ...dto, updatedAt: DateTime.now() }
Merge(current, dto, date) ==
    [f \in DOMAIN current |->
        IF f = "updatedAt" THEN date
        ELSE IF f \in DOMAIN dto THEN dto[f] ELSE current[f]]

\* the store calls left for repo.update after the fetch took its own
Remaining(fail, fetch) ==
    IF fail > Len(fetch.calls) THEN fail - Len(fetch.calls) ELSE 0

\* the mapError that follows repo.update, over the answers of the fetch and
\* of the update
Updated(fetch, update, error) ==
    [res |-> MapError(update.res, error), table |-> update.table,
     repo |-> <<"fetchById", "update">>, calls |-> fetch.calls \o update.calls]

\* a workflow result, with the entity it handed to repo.update
Traced(r, entity) ==
    [res |-> r.res, table |-> r.table, repo |-> r.repo, calls |-> r.calls,
     arg |-> entity]

\* the mapError that follows fetchById and onNone
UserNotFound(id) == NotFoundErr("UserNotFoundError", "User not found")

\* the mapError that follows User.create in updateUser: it sits after the
\* fetch as well, and gives every error that reaches it the same
\* UserValidationError
UserUpdatePayloadError(e, input) ==
    ValidationErr("UserValidationError", "Invalid user update payload", "user", input)

\* repo.update of the merged entity
updateUserSave(fetch, entity, table, input, fail) ==
    IF ~entity.ok
    THEN [res |-> UserUpdatePayloadError(entity, input), table |-> table,
          repo |-> <<"fetchById">>, calls |-> fetch.calls]
    ELSE Traced(Updated(fetch, UserRepoUpdate(table, entity.val, Remaining(fail, fetch)),
                        UserNotFound(input.id)),
                entity.val)

\* the fetched user, or NotFound; then serialize, merge and User.create
updateUserMerge(dto, fetch, table, input, date, fail) ==
    updateUserSave(fetch,
                   IF ~fetch.res.ok \/ fetch.res.val = None THEN UserNotFound(input.id)
                   ELSE UserCreate(Merge(Serialized(fetch.res.val.value), dto.val, date)),
                   table, input, fail)

\* repo.fetchById of the decoded id
updateUserFetch(dto, table, input, date, fail) ==
    IF ~dto.ok
    THEN Rejected(ValidationErr("UserValidationError", "Invalid update user input",
                                "user", input), table)
    ELSE updateUserMerge(dto, UserFetchById(table, input.id, fail, 1),
                         table, input, date, fail)

\* updateUser: decode, repo.fetchById, serialize, merge, User.create,
\* repo.update
updateUser(table, input, date, fail) ==
    updateUserFetch(UpdateUserDtoDecode(input), table, input, date, fail)

\* S.decodeUnknown(UpdateTaskDtoSchema); a description given decodes to an Option
UpdateTaskDtoDecode(input) ==
    IF /\ IsUUID(input.id)
       /\ "title" \in DOMAIN input => validateTitle(input.title)
       /\ "description" \in DOMAIN input => OptionalDecode(input.description).ok
       /\ "status" \in DOMAIN input => input.status \in TaskStatus
       /\ "assigneeId" \in DOMAIN input => IsUUID(input.assigneeId)
    THEN Ok([f \in DOMAIN input |->
                IF f = "description" THEN DecodedDescription(input) ELSE input[f]])
    ELSE ParseErr("dto", input)

TaskNotFound(id) == NotFoundErr("TaskNotFoundError", "Task not found")

TaskUpdatePayloadError(e, input) ==
    ValidationErr("TaskValidationError", "Invalid task update payload", "task", input)

updateTaskSave(fetch, entity, table, input, fail) ==
    IF ~entity.ok
    THEN [res |-> TaskUpdatePayloadError(entity, input), table |-> table,
          repo |-> <<"fetchById">>, calls |-> fetch.calls]
    ELSE Traced(Updated(fetch, TaskRepoUpdate(table, entity.val, Remaining(fail, fetch)),
                        TaskNotFound(input.id)),
                entity.val)

updateTaskMerge(dto, fetch, table, input, date, fail) ==
    updateTaskSave(fetch,
                   IF ~fetch.res.ok \/ fetch.res.val = None THEN TaskNotFound(input.id)
                   ELSE TaskCreate(Merge(Serialized(fetch.res.val.value), dto.val, date)),
                   table, input, fail)

updateTaskFetch(dto, table, input, date, fail) ==
    IF ~dto.ok
    THEN Rejected(ValidationErr("TaskValidationError", "Invalid update task input",
                                "task", input), table)
    ELSE updateTaskMerge(dto, TaskFetchById(table, input.id, fail, 1),
                         table, input, date, fail)

\* updateTask: as updateUser
updateTask(table, input, date, fail) ==
    updateTaskFetch(UpdateTaskDtoDecode(input), table, input, date, fail)

\* a workflow that failed at decode and leaves the table alone
Refused(error) == [res |-> error, repo |-> <<>>, calls |-> <<>>]

\* the mapError and the match after repo.fetchById of a get-by-id workflow:
\* a failed fetch, and none, both become the NotFound error
Found(fetch, error) ==
    [res |-> IF ~fetch.res.ok \/ fetch.res.val = None THEN error
             ELSE Ok(fetch.res.val.value),
     repo |-> <<"fetchById">>, calls |-> fetch.calls]

\* getUserById: decode the id, repo.fetchById
getUserById(table, id, fail) ==
    IF ~IsUUID(id)
    THEN Refused(ValidationErr("UserValidationError", "Invalid user id", "id", id))
    ELSE Found(UserFetchById(table, id, fail, 1), UserNotFound(id))

\* getTaskById: decode the id, repo.fetchById
getTaskById(table, id, fail) ==
    IF ~IsUUID(id)
    THEN Refused(ValidationErr("TaskValidationError", "Invalid task id", "id", id))
    ELSE Found(TaskFetchById(table, id, fail, 1), TaskNotFound(id))

\* the mapError after repo.deleteById of a delete workflow: every failure of
\* the repository becomes the NotFound error
Deleted(del, error) ==
    [res |-> MapError(del.res, error), table |-> del.table,
     repo |-> <<"deleteById">>, calls |-> del.calls]

\* deleteUserById: decode { id }, repo.deleteById
deleteUserById(table, input, fail) ==
    IF ~IsUUID(input.id)
    THEN Rejected(ValidationErr("UserValidationError", "Invalid user id", "id", input),
                  table)
    ELSE Deleted(UserRepoDeleteById(table, input.id, fail),
                 NotFoundErr("UserNotFoundError", "Failed to delete user"))

\* deleteTaskById: decode { id }, repo.deleteById
deleteTaskById(table, input, fail) ==
    IF ~IsUUID(input.id)
    THEN Rejected(ValidationErr("TaskValidationError", "Invalid task id", "id", input),
                  table)
    ELSE Deleted(TaskRepoDeleteById(table, input.id, fail),
                 NotFoundErr("TaskNotFoundError", "Failed to delete task"))

----------------------------------------------------------------------------
(* Repository and workflow calls as steps *)

UserPool == {U1, U2}
TaskPool == {T1, T2}

Pool == IF focus = "User" THEN UserPool ELSE TaskPool
Table == IF focus = "User" THEN users ELSE tasks

SetTable(t) ==
    /\ users' = (IF focus = "User" THEN t ELSE users)
    /\ tasks' = (IF focus = "Task" THEN t ELSE tasks)

\* the record of a call; fail names the store call the store rejected, so it
\* is at most the number of store calls the operation issued
Call(op, input, fail, r, repo) ==
    [op |-> op, input |-> input, fail |-> fail, ok |-> r.res.ok, res |-> r.res,
     repo |-> repo, calls |-> r.calls]

\* an entity of the focus kind with the id, created at the date
NewEntity(id, date) ==
    IF focus = "User" THEN UserCreate(UserRow(id, date)).val
    ELSE TaskCreate([ValidTask EXCEPT !.id = id, !.createdAt = date,
                                      !.updatedAt = date]).val

\* the entity of the id after an update method at the date: of the stored
\* entity if there is one, else of a new one
ChangedEntity(id, date) ==
    EntityUpdate(IF id \in DOMAIN Table THEN EntityCreate(focus, Table[id]).val
                 ELSE NewEntity(id, date),
                 IF focus = "User" THEN "name" ELSE "status",
                 IF focus = "User" THEN NameB ELSE "DONE",
                 date).val

\* the repository operation of the focus kind
Add(e, fail) ==
    IF focus = "User" THEN UserRepoAdd(users, e, fail) ELSE TaskRepoAdd(tasks, e, fail)

Update(e, fail) ==
    IF focus = "User" THEN UserRepoUpdate(users, e, fail)
    ELSE TaskRepoUpdate(tasks, e, fail)

FetchById(id, fail) ==
    IF focus = "User" THEN UserFetchById(users, id, fail, 1)
    ELSE TaskFetchById(tasks, id, fail, 1)

DeleteById(id, fail) ==
    IF focus = "User" THEN UserRepoDeleteById(users, id, fail)
    ELSE TaskRepoDeleteById(tasks, id, fail)

RepoAdd(id, fail) ==
    \E e \in {NewEntity(id, now)} : \E r \in {Add(e, fail)} :
        /\ fail <= Len(r.calls)
        /\ last' = Call("add", e, fail, r, <<>>)
        /\ SetTable(r.table)
        /\ removed' = (IF r.res.ok THEN removed \ {id} ELSE removed)
        /\ UNCHANGED <<heap, origin, now, focus, flight, scan>>

RepoUpdate(id, fail) ==
    \E e \in {ChangedEntity(id, now)} : \E r \in {Update(e, fail)} :
        /\ fail <= Len(r.calls)
        /\ last' = Call("update", e, fail, r, <<>>)
        /\ SetTable(r.table)
        /\ UNCHANGED <<heap, origin, now, focus, flight, scan, removed>>

RepoFetchById(id, fail) ==
    \E r \in {FetchById(id, fail)} :
        /\ fail <= Len(r.calls)
        /\ last' = Call("fetchById", id, fail, r, <<>>)
        /\ UNCHANGED <<heap, origin, users, tasks, now, focus, flight, scan, removed>>

RepoDeleteById(id, fail) ==
    \E r \in {DeleteById(id, fail)} :
        /\ fail <= Len(r.calls)
        /\ last' = Call("deleteById", id, fail, r, <<>>)
        /\ SetTable(r.table)
        /\ removed' = (IF r.res.ok THEN removed \cup {id} ELSE removed)
        /\ UNCHANGED <<heap, origin, now, focus, flight, scan>>

CreateUserInputs ==
    {[name |-> NameA, email |-> Mail, password |-> Pass],
     [name |-> Empty, email |-> Mail, password |-> Pass]}

CreateTaskInputs ==
    {[title |-> <<"A", "b">>, description |-> JsNull, status |-> "TODO",
      assigneeId |-> U1],
     [title |-> Empty, description |-> JsNull, status |-> "TODO", assigneeId |-> U1],
     [title |-> <<"A", "b">>, description |-> JsStr(Desc49), status |-> "TODO",
      assigneeId |-> U1]}

UpdateUserInputs ==
    {[id |-> id, name |-> NameB] : id \in UserPool \cup {BadId}}
        \cup {[id |-> U1, name |-> Empty], [id |-> U1]}

UpdateTaskInputs ==
    {[id |-> id, status |-> "DONE"] : id \in TaskPool \cup {BadId}}
        \cup {[id |-> T1, title |-> Empty],
              [id |-> T1, description |-> JsStr(Desc50)],
              [id |-> T1, title |-> <<"b">>, assigneeId |-> U2]}

\* UUID.init() draws an id that no row has
\* the record of a call of an Update workflow, with the entities it handed to
\* repo.update
Passing(call, r) ==
    [op |-> call.op, input |-> call.input, fail |-> call.fail, ok |-> call.ok,
     res |-> call.res, repo |-> call.repo, calls |-> call.calls,
     args |-> IF "arg" \in DOMAIN r THEN <<r.arg>> ELSE <<>>]

CreateUser(input, id, fail) ==
    /\ focus = "User"
    /\ id \notin DOMAIN users
    /\ \E r \in {createUser(users, input, id, now, fail)} :
           /\ fail <= Len(r.calls)
           /\ last' = Call("createUser", input, fail, r, r.repo)
           /\ users' = r.table
           /\ removed' = (IF r.res.ok THEN removed \ {id} ELSE removed)
    /\ UNCHANGED <<heap, origin, tasks, now, focus, flight, scan>>

CreateTask(input, id, fail) ==
    /\ focus = "Task"
    /\ id \notin DOMAIN tasks
    /\ \E r \in {createTask(tasks, input, id, now, fail)} :
           /\ fail <= Len(r.calls)
           /\ last' = Call("createTask", input, fail, r, r.repo)
           /\ tasks' = r.table
           /\ removed' = (IF r.res.ok THEN removed \ {id} ELSE removed)
    /\ UNCHANGED <<heap, origin, users, now, focus, flight, scan>>

UpdateUser(input, fail) ==
    /\ focus = "User"
    /\ \E r \in {updateUser(users, input, now, fail)} :
           /\ fail <= Len(r.calls)
           /\ last' = Passing(Call("updateUser", input, fail, r, r.repo), r)
           /\ users' = r.table
    /\ UNCHANGED <<heap, origin, tasks, now, focus, flight, scan, removed>>

UpdateTask(input, fail) ==
    /\ focus = "Task"
    /\ \E r \in {updateTask(tasks, input, now, fail)} :
           /\ fail <= Len(r.calls)
           /\ last' = Passing(Call("updateTask", input, fail, r, r.repo), r)
           /\ tasks' = r.table
    /\ UNCHANGED <<heap, origin, users, now, focus, flight, scan, removed>>

GetUserById(id, fail) ==
    /\ focus = "User"
    /\ \E r \in {getUserById(users, id, fail)} :
           /\ fail <= Len(r.calls)
           /\ last' = Call("getUserById", id, fail, r, r.repo)
    /\ UNCHANGED <<heap, origin, users, tasks, now, focus, flight, scan, removed>>

GetTaskById(id, fail) ==
    /\ focus = "Task"
    /\ \E r \in {getTaskById(tasks, id, fail)} :
           /\ fail <= Len(r.calls)
           /\ last' = Call("getTaskById", id, fail, r, r.repo)
    /\ UNCHANGED <<heap, origin, users, tasks, now, focus, flight, scan, removed>>

DeleteUserById(input, fail) ==
    /\ focus = "User"
    /\ \E r \in {deleteUserById(users, input, fail)} :
           /\ fail <= Len(r.calls)
           /\ last' = Call("deleteUserById", input, fail, r, r.repo)
           /\ users' = r.table
           /\ removed' = (IF r.res.ok THEN removed \cup {input.id} ELSE removed)
    /\ UNCHANGED <<heap, origin, tasks, now, focus, flight, scan>>

DeleteTaskById(input, fail) ==
    /\ focus = "Task"
    /\ \E r \in {deleteTaskById(tasks, input, fail)} :
           /\ fail <= Len(r.calls)
           /\ last' = Call("deleteTaskById", input, fail, r, r.repo)
           /\ tasks' = r.table
           /\ removed' = (IF r.res.ok THEN removed \cup {input.id} ELSE removed)
    /\ UNCHANGED <<heap, origin, users, now, focus, flight, scan>>

Init ==
    /\ heap = <<>>
    /\ origin = <<>>
    /\ users = EmptyTable
    /\ tasks = EmptyTable
    /\ now = 0
    /\ focus \in {"User", "Task"}
    /\ last = NoCall
    /\ scan = NoScan
    /\ removed = {}
    /\ flight = NoFlight

\* the repository called directly, as its tests do
RepoNext ==
    \/ \E id \in Pool, fail \in 0..1 : RepoAdd(id, fail)
    \/ \E id \in Pool, fail \in 0..2 : RepoUpdate(id, fail)
    \/ \E id \in Pool \cup {BadId}, fail \in 0..1 : RepoFetchById(id, fail)
    \/ \E id \in Pool \cup {BadId}, fail \in 0..2 : RepoDeleteById(id, fail)
    \/ Tick

RepoSpec == Init /\ [][RepoNext]_vars

\* the workflows called over the repository
Next ==
    \/ \E input \in CreateUserInputs, id \in UserPool, fail \in 0..1 :
          CreateUser(input, id, fail)
    \/ \E input \in CreateTaskInputs, id \in TaskPool, fail \in 0..1 :
          CreateTask(input, id, fail)
    \/ \E input \in UpdateUserInputs, fail \in 0..3 : UpdateUser(input, fail)
    \/ \E input \in UpdateTaskInputs, fail \in 0..3 : UpdateTask(input, fail)
    \/ \E id \in UserPool \cup {BadId}, fail \in 0..1 : GetUserById(id, fail)
    \/ \E id \in TaskPool \cup {BadId}, fail \in 0..1 : GetTaskById(id, fail)
    \/ \E id \in UserPool \cup {BadId}, fail \in 0..2 : DeleteUserById([id |-> id], fail)
    \/ \E id \in TaskPool \cup {BadId}, fail \in 0..2 : DeleteTaskById([id |-> id], fail)
    \/ Tick

Spec == Init /\ [][Next]_vars

----------------------------------------------------------------------------
(* Properties of the entities *)

\* C1 (as stated): serialize(create(r)) equals r field for field, for every
\* valid serialized record r of a User or of a Task, also when the Task's
\* description is absent.
RoundTripExact ==
    last.op = "serialized" => last.out = origin[last.recv]

NullishToNull(r) ==
    IF "description" \in DOMAIN r /\ r.description = JsUndefined
    THEN [r EXCEPT !.description = JsNull]
    ELSE r

\* C1 (amended): serialize(create(r)) equals r field for field, except that an
\* absent description given as undefined is serialized as null; a User record,
\* and a Task record whose description is null or a valid string, round-trips
\* exactly.
RoundTripNullish ==
    last.op = "serialized" => last.out = NullishToNull(origin[last.recv])

\* a Task created from a record without a description has been serialized
RoundTripWitness ==
    /\ last.op = "serialized"
    /\ heap[last.recv].kind = "Task"
    /\ origin[last.recv].description = JsUndefined
    /\ last.out.description = JsNull

\* C2: an update call returns a distinct instance and leaves every field of
\* every existing instance as it was, across any chain of updates.
Immutability ==
    [][ /\ \A i \in 1..Len(heap) : i <= Len(heap') /\ heap'[i] = heap[i]
        /\ (heap' # heap /\ last'.op = "update" /\ last'.ok)
              => (last'.ref \notin 1..Len(heap) /\ last'.ref # last'.recv)
      ]_vars

\* a chain of two updates: the title of the first instance and the status of
\* the second are still the old ones
ImmutabilityWitness ==
    /\ last.op = "update" /\ last.ok
    /\ last.recv = 2 /\ last.ref = 3
    /\ heap[1].kind = "Task" /\ heap[2].kind = "Task"
    /\ heap[1].title # heap[2].title
    /\ heap[2].status # heap[3].status
    /\ heap[3].title = heap[2].title

----------------------------------------------------------------------------
(* Properties of the workflows and of the repositories *)

IsUpdateWorkflow == last.op \in {"updateUser", "updateTask"}

UpdateInputDecodes ==
    IF last.op = "updateUser" THEN UpdateUserDtoDecode(last.input).ok
    ELSE UpdateTaskDtoDecode(last.input).ok

\* C3: an update workflow given a valid input whose well-formed id no row
\* has fails with a NotFound error and does not call repository.update.
UpdateOfMissingIsNotFound ==
    (IsUpdateWorkflow /\ UpdateInputDecodes /\ last.input.id \notin DOMAIN Table) =>
        /\ ~last.ok
        /\ IsNotFoundError(last.res)
        /\ \A i \in DOMAIN last.repo : last.repo[i] # "update"

CreateInputDecodes(call) ==
    IF call.op = "createUser" THEN CreateUserDtoDecode(call.input).ok
    ELSE CreateTaskDtoDecode(call.input).ok

\* the table is the old one with the one row of the entity returned
GainedTheRow(old, new, entity) ==
    /\ entity.id \notin DOMAIN old
    /\ DOMAIN new = DOMAIN old \cup {entity.id}
    /\ new[entity.id] = Serialized(entity)
    /\ \A id \in DOMAIN old : new[id] = old[id]

\* C4: a create workflow whose input does not decode or validate calls
\* repository.add not at all and leaves the store as it was; the store gains
\* a row only in a create that succeeded in every stage, and then that row.
CreatePersistsOnlyOnSuccess ==
    [][last'.op \in {"createUser", "createTask"} =>
          /\ ~CreateInputDecodes(last') =>
                 /\ ~last'.ok
                 /\ last'.repo = <<>>
                 /\ last'.calls = <<>>
                 /\ users' = users /\ tasks' = tasks
          /\ ~last'.ok => (users' = users /\ tasks' = tasks)
          /\ (users' # users \/ tasks' # tasks) =>
                 /\ last'.ok
                 /\ CreateInputDecodes(last')
                 /\ last'.repo = <<"add">>
                 /\ IF last'.op = "createUser"
                    THEN GainedTheRow(users, users', last'.res.val) /\ tasks' = tasks
                    ELSE GainedTheRow(tasks, tasks', last'.res.val) /\ users' = users
    ]_vars

CreateRejectedWitness ==
    /\ last.op = "createTask"
    /\ ~CreateInputDecodes(last)
    /\ ~last.ok
    /\ last.repo = <<>>
    /\ Cardinality(DOMAIN tasks) = 1

\* C5: repository update of an entity whose id no row has fails with a
\* NotFoundError and leaves the store unchanged.
UpdateOfMissingRowIsNotFound ==
    [][(last'.op = "update" /\ last'.fail = 0 /\ last'.input.id \notin DOMAIN Table) =>
          /\ ~last'.ok
          /\ IsNotFoundError(last'.res)
          /\ users' = users /\ tasks' = tasks
    ]_vars

\* C6: once deleteById(id) has succeeded and no add of the id has followed,
\* fetchById(id) returns none and deleteById(id) fails with a NotFound error.
DeleteThenFetch ==
    [][(now' = now /\ last'.op \in {"fetchById", "deleteById"} /\ last'.fail = 0
            /\ last'.input \in removed) =>
          /\ last'.op = "fetchById" => last'.res = Ok(None)
          /\ last'.op = "deleteById" => (~last'.ok /\ IsNotFoundError(last'.res))
    ]_vars

\* the part of C6 about fetchById alone
DeleteThenFetchReturnsNone ==
    [][(now' = now /\ last'.fail = 0 /\ last'.op = "fetchById"
            /\ last'.input \in removed) => last'.res = Ok(None)
    ]_vars

----------------------------------------------------------------------------
(* Properties of the paginated reads *)

IsRead == last.op \in {"fetchPaginated", "search"}

\* the filters of the search parameters, each one constraining the task when
\* it is supplied; the text filter as the store evaluates it
SatisfiesAllFilters(row, params) ==
    /\ flattenConditions(<<buildTextSearchFilter(row, params.text)>>)
    /\ params.status = JsUndefined \/ row.status \in params.status.v
    /\ params.assigneeId = JsUndefined \/ row.assigneeId = params.assigneeId.v
    /\ params.createdFrom = JsUndefined \/ row.createdAt >= params.createdFrom.v
    /\ params.createdTo = JsUndefined \/ row.createdAt <= params.createdTo.v

\* C7: every task a successful search returns satisfies all the filters
\* supplied (text, status or status list, assigneeId, createdFrom, createdTo),
\* and an absent filter constrains nothing.
SearchAppliesAllFilters ==
    (last.op = "search" /\ last.ok) =>
        \A i \in DOMAIN last.res.val.data :
            SatisfiesAllFilters(Serialized(last.res.val.data[i]), last.params)

LowerCase(c) ==
    CASE c = "A" -> "a"
      [] c = "B" -> "b"
      [] c = "X" -> "x"
      [] OTHER -> c

Lowered(s) == [i \in DOMAIN s |-> LowerCase(s[i])]

\* t occurs in s as a run of consecutive characters
Contains(s, t) ==
    \E k \in 0..(Len(s) - Len(t)) : SubSeq(s, k + 1, k + Len(t)) = t

ContainsIgnoringCase(s, t) == Contains(Lowered(s), Lowered(t))

TextMatches(row, text) ==
    \/ ContainsIgnoringCase(row.title, text)
    \/ row.description # JsNull /\ ContainsIgnoringCase(row.description.v, text)

\* C8: a successful search with a text counts and returns exactly the tasks
\* whose title or description contains the text, letter case ignored.
SearchTextIgnoresCase ==
    (last.op = "search" /\ last.ok /\ last.params.text # JsUndefined) =>
        /\ last.res.val.pagination.total =
               Cardinality({r \in Rows(tasks) : TextMatches(r, last.params.text.v)})
        /\ \A i \in DOMAIN last.res.val.data :
               TextMatches(Serialized(last.res.val.data[i]), last.params.text.v)

\* creation time descending, then the identifier descending
ComesBefore(a, b) ==
    a.createdAt > b.createdAt \/ (a.createdAt = b.createdAt /\ UuidLess(b.id, a.id))

ScannedRows(p) == {scan.pages[p][i] : i \in DOMAIN scan.pages[p]}

MatchingIds ==
    IF focus = "User" THEN {r.id : r \in Rows(users)}
    ELSE {r.id : r \in Matching(tasks, scan.key)}

\* C9: the pages read of one query over an unchanged store are in the order of
\* creation time descending with the identifier as tiebreak, no row in two
\* pages, and pages 1..totalPages hold every matching row exactly once.
PagesPartitionTheRows ==
    scan.kind = "scan" =>
        /\ \A p \in DOMAIN scan.pages : \A i, j \in DOMAIN scan.pages[p] :
               i < j => ComesBefore(scan.pages[p][i], scan.pages[p][j])
        /\ \A p, q \in DOMAIN scan.pages :
               p < q => \A a \in ScannedRows(p), b \in ScannedRows(q) : ComesBefore(a, b)
        /\ (1..scan.totalPages) \subseteq DOMAIN scan.pages =>
               {r.id : r \in UNION {ScannedRows(p) : p \in 1..scan.totalPages}}
                   = MatchingIds

\* the same of the users alone, whose data query orders by createdAt and id
UserPagesPartitionTheRows == focus = "User" => PagesPartitionTheRows

\* C10: a successful paginated read used offset = (page - 1) * limit, returned
\* the rows from that offset on, and its metadata has totalPages =
\* ceil(total / limit), hasNext = (page < totalPages), hasPrev = (page > 1).
PaginationArithmetic ==
    (IsRead /\ last.ok) =>
        LET page == last.params.page
            limit == last.params.limit
            meta == last.res.val.pagination
            rest == meta.total - last.offset
        IN  /\ last.offset + limit = page * limit
            /\ Len(last.res.val.data) =
                   (IF rest < 0 THEN 0 ELSE IF rest < limit THEN rest ELSE limit)
            /\ limit >= 1 =>
                   /\ meta.totalPages.kind = "finite"
                   /\ (meta.totalPages.n - 1) * limit < meta.total
                   /\ meta.total <= meta.totalPages.n * limit
                   /\ meta.hasNext = (page < meta.totalPages.n)
            /\ limit = 0 =>
                   /\ meta.totalPages.kind = (IF meta.total = 0 THEN "NaN" ELSE "Infinity")
                   /\ meta.hasNext = (meta.total # 0)
            /\ meta.hasPrev = (page > 1)

PaginationArithmeticWitness ==
    /\ IsRead
    /\ last.ok
    /\ last.params.page = 2
    /\ last.params.limit = 2
    /\ last.offset = 2
    /\ last.res.val.pagination.total = 1
    /\ last.res.val.pagination.totalPages = Finite(1)
    /\ last.res.val.pagination.hasPrev
    /\ ~last.res.val.pagination.hasNext

Min(a, b) == IF a < b THEN a ELSE b
Max(a, b) == IF a > b THEN a ELSE b

\* the rows left from the offset of the page on, of the n rows of the store
Remainder(n, page, limit) == Max(0, n - (page - 1) * limit)

\* C11: over a store of N rows a fetchPaginated({page, limit}) that returns,
\* returns exactly min(limit, max(0, N - (page - 1) * limit)) rows; the page
\* that holds the last rows has hasNext false, and an empty store yields no
\* data, total 0 and totalPages 0.
FetchPaginatedRowCount ==
    (last.op = "fetchPaginated" /\ last.ok) =>
        LET n == Cardinality(DOMAIN users)
            page == last.params.page
            limit == last.params.limit
            meta == last.res.val.pagination
        IN  /\ Len(last.res.val.data) = Min(limit, Remainder(n, page, limit))
            /\ (Remainder(n, page, limit) > 0 /\ Remainder(n, page, limit) <= limit)
                   => ~meta.hasNext
            /\ n = 0 => /\ last.res.val.data = <<>>
                        /\ meta.total = 0
                        /\ meta.totalPages = Finite(0)

\* the same for a limit of at least 1
FetchPaginatedRowCountOfValidLimit ==
    (last.op = "fetchPaginated" /\ last.params.limit >= 1) => FetchPaginatedRowCount

----------------------------------------------------------------------------
(* The read workflows over a store that does not change *)

\* a JavaScript number in an input
Num(n) == [t |-> "number", v |-> n]

ForbiddenErr(message) ==
    [ok |-> FALSE, tag |-> "ForbiddenError", class |-> "ForbiddenError",
     message |-> message]

\* fetchAll of the users: one select without ORDER BY, then fromDbRow on every
\* row; order is the order the store returned the rows in
UserFetchAll(order, fail) ==
    IF Rejects(fail, 1)
    THEN [res |-> ForbiddenErr("User is not authorized to fetch all users"),
          calls |-> <<"select">>]
    ELSE IF \E i \in DOMAIN order : ~UserFromDbRow(order[i]).ok
    THEN [res |-> MutationErr("DeserializationError", "add",
                              "Failed to deserialize users", "User", NoId),
          calls |-> <<"select">>]
    ELSE [res |-> Ok([i \in DOMAIN order |-> UserFromDbRow(order[i]).val]),
          calls |-> <<"select">>]

\* fetchAll of the tasks: a row that does not deserialize ends as a QueryError
TaskFetchAll(order, fail) ==
    IF Rejects(fail, 1)
    THEN [res |-> QueryErr("Failed to fetch all tasks"), calls |-> <<"select">>]
    ELSE IF \E i \in DOMAIN order : ~TaskFromDbRow(order[i]).ok
    THEN [res |-> QueryErr("Failed to deserialize tasks"), calls |-> <<"select">>]
    ELSE [res |-> Ok([i \in DOMAIN order |-> TaskFromDbRow(order[i]).val]),
          calls |-> <<"select">>]

\* S.Number
IsNumber(v) == v.t = "number"

\* S.decodeUnknown(PaginationOptions): page and limit are required numbers;
\* the schema has no filter on their range
PaginationDtoDecode(input) ==
    IF /\ "page" \in DOMAIN input
       /\ "limit" \in DOMAIN input
       /\ IsNumber(input.page)
       /\ IsNumber(input.limit)
    THEN Ok([page |-> input.page.v, limit |-> input.limit.v])
    ELSE ParseErr("dto", input)

\* a read workflow that failed at decode
NotFetched(error) == [res |-> error, repo |-> <<>>, calls |-> <<>>]

\* the mapError that follows the repository read of a read workflow
Fetched(read, method, error) ==
    [res |-> MapError(read.res, error), repo |-> <<method>>, calls |-> read.calls]

getUsersPaginatedFetch(dto, table, order, fail) ==
    IF ~dto.ok
    THEN NotFetched(ValidationErr("UserValidationError", "Invalid pagination params",
                                  JsUndefined, JsUndefined))
    ELSE Fetched(UserFetchPaginated(table, dto.val, order, fail), "fetchPaginated",
                 ValidationErr("UserValidationError", "Failed to fetch paginated users",
                               JsUndefined, JsUndefined))

\* getUsersPaginated: decode, repo.fetchPaginated
getUsersPaginated(table, input, order, fail) ==
    getUsersPaginatedFetch(PaginationDtoDecode(input), table, order, fail)

getTasksPaginatedFetch(dto, order, fail) ==
    IF ~dto.ok
    THEN NotFetched(ValidationErr("TaskValidationError", "Invalid pagination params",
                                  JsUndefined, JsUndefined))
    ELSE Fetched(TaskFetchAll(order, fail), "fetchAll",
                 ValidationErr("TaskValidationError", "Failed to fetch paginated tasks",
                               JsUndefined, JsUndefined))

\* getTasksPaginated: decode, then repo.fetchAll; the options are not used
getTasksPaginated(input, order, fail) ==
    getTasksPaginatedFetch(PaginationDtoDecode(input), order, fail)

\* S.optional(schema) of a filter of the search parameters
OptionalFilter(v, valid) == v = JsUndefined \/ valid

SearchDtoDecodeNoRange(input) ==
    IF /\ PaginationDtoDecode(input).ok
       /\ OptionalFilter(input.status, input.status.v \subseteq TaskStatus)
       /\ OptionalFilter(input.assigneeId, IsUUID(input.assigneeId.v))
       /\ OptionalFilter(input.text, input.text.t = "string")
       /\ OptionalFilter(input.createdFrom, ValidDate(input.createdFrom.v))
       /\ OptionalFilter(input.createdTo, ValidDate(input.createdTo.v))
    THEN Ok([input EXCEPT !.page = input.page.v, !.limit = input.limit.v])
    ELSE ParseErr("dto", input)

\* S.decodeUnknown(PaginatedSearchParams): the fields, then the filter on the
\* date range when both dates are given
SearchDtoDecode(input) ==
    IF /\ PaginationDtoDecode(input).ok
       /\ OptionalFilter(input.status, input.status.v \subseteq TaskStatus)
       /\ OptionalFilter(input.assigneeId, IsUUID(input.assigneeId.v))
       /\ OptionalFilter(input.text, input.text.t = "string")
       /\ OptionalFilter(input.createdFrom, ValidDate(input.createdFrom.v))
       /\ OptionalFilter(input.createdTo, ValidDate(input.createdTo.v))
       /\ (input.createdFrom # JsUndefined /\ input.createdTo # JsUndefined)
              => input.createdFrom.v <= input.createdTo.v
    THEN Ok([input EXCEPT !.page = input.page.v, !.limit = input.limit.v])
    ELSE ParseErr("dto", input)

\* the rows the data query of search may return for decoded parameters, in
\* every order the ORDER BY allows
SearchOrders(table, dto) ==
    IF dto.ok
    THEN Orderings(Matching(table, dto.val), TaskOrderBy(Matching(table, dto.val)))
    ELSE {<<>>}

searchTasksFetch(dto, table, input, order, fail) ==
    IF ~dto.ok
    THEN NotFetched(ValidationErr("TaskValidationError", "Invalid search params",
                                  "searchParams", input))
    ELSE Fetched(TaskSearch(table, dto.val, order, fail), "search",
                 ValidationErr("TaskValidationError", "Failed to search tasks",
                               JsUndefined, JsUndefined))

\* searchTasks: decode, repo.search
searchTasks(table, input, order, fail) ==
    searchTasksFetch(SearchDtoDecode(input), table, input, order, fail)

PaginationInputs ==
    {[page |-> Num(p), limit |-> Num(l)] : p \in (0 - 1)..MaxPage, l \in (0 - 1)..MaxLimit}
        \cup {[limit |-> Num(1)], [page |-> JsStr(<<"1">>), limit |-> Num(1)]}

SearchDates == {JsUndefined, Value(InvalidDate)} \cup {Value(d) : d \in 0..MaxClock}

SearchInputs ==
    {[page |-> Num(p), limit |-> Num(l), text |-> JsUndefined, status |-> JsUndefined,
      assigneeId |-> JsUndefined, createdFrom |-> from, createdTo |-> to] :
        p \in {0 - 1, 1}, l \in {0, 1}, from \in SearchDates, to \in SearchDates}

GetUsersPaginated(input, fail) ==
    /\ focus = "User"
    /\ \E order \in Orderings(Rows(users), UserOrderBy(Rows(users))) :
          \E r \in {getUsersPaginated(users, input, order, fail)} :
              /\ fail <= Len(r.calls)
              /\ last' = Call("getUsersPaginated", input, fail, r, r.repo)
    /\ UNCHANGED <<heap, origin, users, tasks, now, focus, flight, scan, removed>>

GetTasksPaginated(input, fail) ==
    /\ focus = "Task"
    /\ \E order \in Orderings(Rows(tasks), {}) :
          \E r \in {getTasksPaginated(input, order, fail)} :
              /\ fail <= Len(r.calls)
              /\ last' = Call("getTasksPaginated", input, fail, r, r.repo)
    /\ UNCHANGED <<heap, origin, users, tasks, now, focus, flight, scan, removed>>

SearchTasksWorkflow(input, fail) ==
    /\ focus = "Task"
    /\ \E order \in SearchOrders(tasks, SearchDtoDecode(input)) :
          \E r \in {searchTasks(tasks, input, order, fail)} :
              /\ fail <= Len(r.calls)
              /\ last' = Call("searchTasks", input, fail, r, r.repo)
    /\ UNCHANGED <<heap, origin, users, tasks, now, focus, flight, scan, removed>>

\* one call of a read workflow over any store
QueryNext ==
    /\ last = NoCall
    /\ \/ \E input \in PaginationInputs, fail \in 0..2 : GetUsersPaginated(input, fail)
       \/ \E input \in PaginationInputs, fail \in 0..1 : GetTasksPaginated(input, fail)
       \/ \E input \in SearchInputs, fail \in 0..2 : SearchTasksWorkflow(input, fail)

QuerySpec == ReadInit /\ [][QueryNext]_vars

\* the call gave numbers for page and limit
GivesPageAndLimit ==
    /\ "page" \in DOMAIN last.input
    /\ "limit" \in DOMAIN last.input
    /\ IsNumber(last.input.page)
    /\ IsNumber(last.input.limit)

\* C12: getUsersPaginated and getTasksPaginated given a page below 1 or a
\* limit below 1 fail with a validation error and call no repository method.
PaginationParamsRejected ==
    (/\ last.op \in {"getUsersPaginated", "getTasksPaginated"}
     /\ GivesPageAndLimit
     /\ (last.input.page.v < 1 \/ last.input.limit.v < 1)) =>
        /\ ~last.ok
        /\ last.res.class = "ValidationError"
        /\ last.repo = <<>>

\* the call gave both dates, valid ones, the first after the second
InvertedRange ==
    /\ last.op = "searchTasks"
    /\ last.input.createdFrom # JsUndefined
    /\ last.input.createdTo # JsUndefined
    /\ ValidDate(last.input.createdFrom.v)
    /\ ValidDate(last.input.createdTo.v)
    /\ last.input.createdFrom.v > last.input.createdTo.v

\* C13: searchTasks given createdFrom after createdTo fails with a validation
\* error and never calls repository.search.
InvertedRangeRejected ==
    InvertedRange =>
        /\ ~last.ok
        /\ last.res.class = "ValidationError"
        /\ last.repo = <<>>
        /\ last.calls = <<>>

\* an inverted range with a page and a limit that are otherwise acceptable,
\* rejected over a store that holds tasks
InvertedRangeWitness ==
    /\ InvertedRange
    /\ last.input.page = Num(1)
    /\ last.input.limit = Num(1)
    /\ tasks # EmptyTable
    /\ last.res.message = "Invalid search params"

----------------------------------------------------------------------------
(* create at the boundaries of the length of a name and of a title *)

MaxLength == 257

\* a valid record of the kind whose name, or title, has n characters
NamedInput(kind, n) ==
    IF kind = "User" THEN [ValidUser EXCEPT !.name = Rep("a", n)]
    ELSE [ValidTask EXCEPT !.title = Rep("a", n)]

\* one create of a record with a name or a title of any length
BoundaryNext ==
    /\ last = NoCall
    /\ \E kind \in {"User", "Task"}, n \in 0..MaxLength :
          CreateEntity(kind, NamedInput(kind, n))

BoundarySpec == EntityInit /\ [][BoundaryNext]_vars

\* the length of the name, or of the title, that create was given
GivenLength ==
    IF last.kind = "User" THEN Len(last.input.name) ELSE Len(last.input.title)

\* C14: User.create accepts a name, and Task.create a title, exactly when it
\* has between 1 and 255 characters.
LengthBoundary ==
    last.op = "create" => (last.ok <=> (GivenLength >= 1 /\ GivenLength <= 255))

\* the same of Task.create alone
TitleLengthBoundary == (last.op = "create" /\ last.kind = "Task") => LengthBoundary

----------------------------------------------------------------------------
(* The life of one stored entity: created, then changed by its update methods
   and by the update workflow *)

Updates == IF focus = "User" THEN UserUpdates ELSE TaskUpdates

\* the stored entity of the id, one of its update methods called on it, and
\* the instance the method returned saved with repository.update
SaveUpdated(id, u, fail) ==
    /\ id \in DOMAIN Table
    /\ \E e \in {EntityUpdate(EntityCreate(focus, Table[id]).val, u[1], u[2], now)} :
          IF ~e.ok
          THEN /\ fail = 0
               /\ last' = [op |-> "saveUpdated", input |-> id, fail |-> 0, ok |-> FALSE,
                           res |-> e, repo |-> <<>>, calls |-> <<>>]
               /\ UNCHANGED <<users, tasks>>
          ELSE \E r \in {Update(e.val, fail)} :
                  /\ fail <= Len(r.calls)
                  /\ last' = Call("saveUpdated", id, fail, r, <<"update">>)
                  /\ SetTable(r.table)
    /\ UNCHANGED <<heap, origin, now, focus, flight, scan, removed>>

LifeNext ==
    \/ \E input \in CreateUserInputs, fail \in 0..1 : CreateUser(input, U1, fail)
    \/ \E input \in CreateTaskInputs, fail \in 0..1 : CreateTask(input, T1, fail)
    \/ \E input \in UpdateUserInputs, fail \in 0..3 : UpdateUser(input, fail)
    \/ \E input \in UpdateTaskInputs, fail \in 0..3 : UpdateTask(input, fail)
    \/ \E id \in Pool, u \in Updates, fail \in 0..2 : SaveUpdated(id, u, fail)
    \/ Tick

LifeSpec == Init /\ [][LifeNext]_vars

IsUpdate(call) == call.op \in {"updateUser", "updateTask", "saveUpdated"}

\* C15: a successful update, by an update method of the entity or by the update
\* workflow, returns and stores an entity with the id and the createdAt it had;
\* every row keeps them from its creation on.
IdentityKept ==
    [][ /\ (IsUpdate(last') /\ last'.ok) =>
              /\ last'.res.val.id \in DOMAIN Table
              /\ last'.res.val.createdAt = Table[last'.res.val.id].createdAt
              /\ last'.op \in {"updateUser", "updateTask"} =>
                     last'.res.val.id = last'.input.id
              /\ last'.op = "saveUpdated" => last'.res.val.id = last'.input
        /\ \A id \in DOMAIN Table :
              id \in DOMAIN Table' /\ Table'[id].id = id
                                   /\ Table'[id].createdAt = Table[id].createdAt
      ]_vars

\* a task created at 0 that an update method gave another title and the
\* update workflow another status, at a later time
IdentityKeptWitness ==
    /\ last.op = "updateTask" /\ last.ok
    /\ now = MaxClock
    /\ T1 \in DOMAIN tasks
    /\ tasks[T1].createdAt = 0
    /\ tasks[T1].updatedAt = MaxClock
    /\ tasks[T1].title = <<"b">>
    /\ tasks[T1].status = "DONE"

----------------------------------------------------------------------------
(* Chains of status updates of one task *)

\* a valid task of every status, with and without a description
StatusInputs ==
    {[ValidTask EXCEPT !.status = st, !.description = d] :
        st \in TaskStatus, d \in {JsNull, JsUndefined, JsStr(Desc50)}}

StatusNext ==
    \/ \E input \in StatusInputs : CreateEntity("Task", input)
    \/ \E ref \in 1..Len(heap), st \in TaskStatus : UpdateEntity(ref, "status", st)
    \/ Tick

StatusSpec == EntityInit /\ [][StatusNext]_vars

\* C16: updateStatus from every status to every status, the same one included,
\* succeeds and returns a task of the requested status.
AnyStatusTransition ==
    (last.op = "update" /\ last.field = "status") =>
        /\ last.ok
        /\ heap[last.recv].status \in TaskStatus
        /\ heap[last.ref].status = last.value
        /\ last.ref # last.recv

\* DONE, reopened to TODO, then updated to TODO again
AnyStatusTransitionWitness ==
    /\ last.op = "update" /\ last.field = "status" /\ last.ok
    /\ Len(heap) = 3
    /\ last.recv = 2 /\ last.ref = 3
    /\ heap[1].status = "DONE"
    /\ heap[2].status = "TODO"
    /\ heap[3].status = "TODO"

----------------------------------------------------------------------------
(* Further properties of the repositories *)

\* C17: fetchById given an identifier that is not a UUID answers none, without
\* failing and without a query to the store, in both repositories.
MalformedIdShortCircuits ==
    (last.op = "fetchById" /\ ~IsUUID(last.input)) =>
        /\ last.ok
        /\ last.res = Ok(None)
        /\ last.calls = <<>>

\* the same of the User repository alone
UserMalformedIdShortCircuits == focus = "User" => MalformedIdShortCircuits

----------------------------------------------------------------------------
(* Further properties of the workflows *)

IsIdWorkflow ==
    last.op \in {"getUserById", "getTaskById", "updateUser", "updateTask",
                 "deleteUserById", "deleteTaskById"}

\* the identifier a get, update or delete workflow was called for
TargetId ==
    IF last.op \in {"getUserById", "getTaskById"} THEN last.input ELSE last.input.id

\* C18: a get-by-id, update or delete workflow reports NotFound only when the
\* identifier has no row; when a store call of it failed, the error is not
\* NotFound.
NotFoundMeansAbsent ==
    (IsIdWorkflow /\ ~last.ok /\ IsNotFoundError(last.res)) =>
        /\ TargetId \notin DOMAIN Table
        /\ last.fail = 0

----------------------------------------------------------------------------
(* Reads of a store that holds rows the entities do not accept *)

\* a users row with an empty name, a tasks row with an empty title
BadUserRow(id, createdAt) == [UserRow(id, createdAt) EXCEPT !.name = <<>>]
BadTaskRow(id, createdAt) == TaskRow(id, <<>>, JsNull, "TODO", U1, createdAt)

StoredUserRows(id) ==
    {UserRow(id, c) : c \in 0..MaxClock} \cup {BadUserRow(id, c) : c \in 0..MaxClock}
StoredTaskRows(id) ==
    {TaskRow(id, <<"a">>, JsNull, "TODO", U1, c) : c \in 0..MaxClock}
        \cup {BadTaskRow(id, c) : c \in 0..MaxClock}

StoredUsers ==
    UNION {{t \in [D -> UNION {StoredUserRows(id) : id \in D}] :
               \A id \in D : t[id] \in StoredUserRows(id)} : D \in SUBSET UserIds}
StoredTasks ==
    UNION {{t \in [D -> UNION {StoredTaskRows(id) : id \in D}] :
               \A id \in D : t[id] \in StoredTaskRows(id)} : D \in SUBSET TaskIds}

FromDbRow(row) == IF focus = "User" THEN UserFromDbRow(row) ELSE TaskFromDbRow(row)

Elements(seq) == {seq[i] : i \in DOMAIN seq}

\* the rows a paginated query returns when the store accepts it
Returned(order, params, fail) ==
    IF fail = 0 /\ params.limit >= 0 /\ calculateOffset(params.page, params.limit) >= 0
    THEN Elements(Page(order, params.limit, calculateOffset(params.page, params.limit)))
    ELSE {}

\* a read, with the rows the store returned to it
RowRead(op, params, fail, r, rows) ==
    [op |-> op, params |-> params, fail |-> fail, ok |-> r.res.ok, res |-> r.res,
     calls |-> r.calls, rows |-> rows]

ReadById(id, fail) ==
    /\ \E r \in {FetchById(id, fail)} :
           last' = RowRead("fetchById", id, fail, r,
                           IF fail = 0 /\ id \in DOMAIN Table THEN {Table[id]} ELSE {})
    /\ UNCHANGED <<heap, origin, users, tasks, now, focus, flight, scan, removed>>

ReadAll(fail) ==
    /\ \E order \in Orderings(Rows(Table), {}) :
         \E r \in {IF focus = "User" THEN UserFetchAll(order, fail)
                   ELSE TaskFetchAll(order, fail)} :
           last' = RowRead("fetchAll", <<>>, fail, r,
                           IF fail = 0 THEN Rows(Table) ELSE {})
    /\ UNCHANGED <<heap, origin, users, tasks, now, focus, flight, scan, removed>>

ReadPage(options, fail) ==
    /\ focus = "User"
    /\ \E order \in Orderings(Rows(users), UserOrderBy(Rows(users))) :
         \E r \in {UserFetchPaginated(users, options, order, fail)} :
           last' = RowRead("fetchPaginated", options, fail, r,
                           Returned(order, options, fail))
    /\ UNCHANGED <<heap, origin, users, tasks, now, focus, flight, scan, removed>>

ReadSearch(params, fail) ==
    /\ focus = "Task"
    /\ \E order \in Orderings(Matching(tasks, params),
                              TaskOrderBy(Matching(tasks, params))) :
         \E r \in {TaskSearch(tasks, params, order, fail)} :
           last' = RowRead("search", params, fail, r, Returned(order, params, fail))
    /\ UNCHANGED <<heap, origin, users, tasks, now, focus, flight, scan, removed>>

RowSearchParams ==
    {[page |-> o.page, limit |-> o.limit, text |-> NoFilter.text,
      status |-> NoFilter.status, assigneeId |-> NoFilter.assigneeId,
      createdFrom |-> NoFilter.createdFrom, createdTo |-> NoFilter.createdTo] :
        o \in PageOptions}

RowInit ==
    /\ heap = <<>>
    /\ origin = <<>>
    /\ now = 0
    /\ last = NoCall
    /\ scan = NoScan
    /\ removed = {}
    /\ flight = NoFlight
    /\ focus \in {"User", "Task"}
    /\ users \in (IF focus = "User" THEN StoredUsers ELSE {EmptyTable})
    /\ tasks \in (IF focus = "Task" THEN StoredTasks ELSE {EmptyTable})

RowNext ==
    /\ last = NoCall
    /\ \/ \E id \in UserIds \cup TaskIds, fail \in 0..1 : ReadById(id, fail)
       \/ \E fail \in 0..1 : ReadAll(fail)
       \/ \E options \in PageOptions, fail \in 0..2 : ReadPage(options, fail)
       \/ \E params \in RowSearchParams, fail \in 0..2 : ReadSearch(params, fail)

RowSpec == RowInit /\ [][RowNext]_vars

\* a read to which the store returned a row that fromDbRow rejects
RowRejected ==
    /\ last.op \in {"fetchById", "fetchAll", "fetchPaginated", "search"}
    /\ \E row \in last.rows : ~FromDbRow(row).ok

\* C19: a read that meets a stored row failing validation fails with the
\* DeserializationError, and with no error of another kind.
RowFailureIsDeserializationError ==
    RowRejected => (~last.ok /\ last.res.tag = "DeserializationError")

\* the same of fetchAll and fetchPaginated of the User repository alone
UserListRowFailureIsDeserializationError ==
    (focus = "User" /\ last.op \in {"fetchAll", "fetchPaginated"}) =>
        RowFailureIsDeserializationError

\* a read that meets a stored row failing validation fails
RowFailureFails == RowRejected => ~last.ok

----------------------------------------------------------------------------
(* One mutation of any store, rows the entities do not accept included *)

\* repository.update of a valid entity of the id
RepoUpdateOf(id, fail) ==
    \E e \in {NewEntity(id, now)} : \E r \in {Update(e, fail)} :
        /\ fail <= Len(r.calls)
        /\ last' = Call("update", e, fail, r, <<>>)
        /\ SetTable(r.table)
        /\ UNCHANGED <<heap, origin, now, focus, flight, scan, removed>>

MutationNext ==
    /\ last = NoCall
    /\ \/ \E id \in Pool, fail \in 0..1 : RepoAdd(id, fail)
       \/ \E id \in Pool, fail \in 0..2 : RepoUpdateOf(id, fail)
       \/ \E id \in Pool \cup {BadId}, fail \in 0..2 : RepoDeleteById(id, fail)

MutationSpec == RowInit /\ [][MutationNext]_vars

\* the operation a repository method attempts
OperationOf(op) ==
    CASE op = "add" -> "add"
      [] op = "update" -> "update"
      [] op = "deleteById" -> "remove"

IsMutation == last.op \in {"add", "update", "deleteById"}

\* the identifier a repository mutation was called for
MutatedId == IF last.op = "deleteById" THEN last.input ELSE last.input.id

\* C20: every MutationError of add, update and deleteById names the operation
\* attempted (add, update, remove), the entity kind and the identifier.
MutationErrorsTagged ==
    (IsMutation /\ ~last.ok /\ IsMutationError(last.res)) =>
        /\ last.res.operation = OperationOf(last.op)
        /\ last.res.entity = focus
        /\ last.res.id = MutatedId

\* a deleteById of a Task that has no row has failed with a MutationError
MutationErrorsTaggedWitness ==
    /\ focus = "Task"
    /\ last.op = "deleteById"
    /\ IsUUID(last.input)
    /\ last.input \notin DOMAIN tasks
    /\ last.fail = 0
    /\ ~last.ok
    /\ IsMutationError(last.res)

\* every failure of add, update and deleteById is a MutationError
MutationsFailWithMutationError ==
    (IsMutation /\ ~last.ok) => IsMutationError(last.res)

----------------------------------------------------------------------------
(* Further properties of the entities *)

\* the fields of a serialized record that its schema rejects
OffendingFields(kind, r) ==
    IF kind = "User"
    THEN {f \in {"id"} : ~IsUUID(r.id)}
         \cup {f \in {"name"} : ~validateName(r.name)}
         \cup {f \in {"email"} : ~validateEmail(r.email)}
         \cup {f \in {"password"} : ~validatePassword(r.password)}
         \cup {f \in {"createdAt"} : ~ValidDate(r.createdAt)}
         \cup {f \in {"updatedAt"} : ~ValidDate(r.updatedAt)}
    ELSE {f \in {"id"} : ~IsUUID(r.id)}
         \cup {f \in {"title"} : ~validateTitle(r.title)}
         \cup {f \in {"description"} : ~OptionalDecode(r.description).ok}
         \cup {f \in {"status"} : r.status \notin TaskStatus}
         \cup {f \in {"assigneeId"} : ~IsUUID(r.assigneeId)}
         \cup {f \in {"createdAt"} : ~ValidDate(r.createdAt)}
         \cup {f \in {"updatedAt"} : ~ValidDate(r.updatedAt)}

CreateFailed == last.op = "create" /\ ~last.ok

\* C21: a create that fails returns no entity, and its validation error names
\* the entity kind, a field of the input that is at fault, and the raw input.
CreateFailureNamesField ==
    CreateFailed =>
        /\ heap = <<>>
        /\ last.err.class = "ValidationError"
        /\ last.err.tag = UpdateErrorTag(last.kind)
        /\ last.err.field \in OffendingFields(last.kind, last.input)
        /\ last.err.value = last.input

\* a create that fails returns no entity, and its validation error names the
\* entity kind and the raw input
CreateFailureNamesKindAndInput ==
    CreateFailed =>
        /\ heap = <<>>
        /\ last.err.class = "ValidationError"
        /\ last.err.tag = UpdateErrorTag(last.kind)
        /\ last.err.value = last.input

\* a create fails exactly when a field of the input is at fault
CreateFailsOnOffendingField ==
    last.op = "create" => (last.ok <=> OffendingFields(last.kind, last.input) = {})

----------------------------------------------------------------------------
(* The user routes: presentation/user.routes.ts *)

\* withActor: the input with the actor of the request context
withActor(input, context) ==
    [f \in DOMAIN input \cup {"actorId", "actorRole"} |->
        IF f = "actorId" THEN context.id
        ELSE IF f = "actorRole" THEN context.role
        ELSE input[f]]

Assignee == [id |-> U2, role |-> "assignee"]

\* generateJWT(id, email, role): the payload the token carries
generateJWT(id, email, role) == [userId |-> id, email |-> email, role |-> role]

serializeUserWhole(user) == Serialized(user)

\* serializeUser: serialized(), then the record without its password
serializeUser(user) ==
    [f \in DOMAIN Serialized(user) \ {"password"} |-> Serialized(user)[f]]

\* executeEffect rejects when the workflow fails: the handler returns nothing
Thrown(error) == [success |-> FALSE, error |-> error]

\* the value the create handler returns for the workflow's result
createResponse(res) ==
    IF ~res.ok THEN Thrown(res)
    ELSE [success |-> TRUE, data |-> serializeUser(res.val),
          token |-> generateJWT(res.val.id, res.val.email, "assignee")]

\* the value the update handler returns
updateResponse(res) ==
    IF ~res.ok THEN Thrown(res)
    ELSE [success |-> TRUE, data |-> serializeUser(res.val)]

\* the value the fetch handler returns
fetchResponse(res) ==
    IF ~res.ok THEN Thrown(res)
    ELSE [success |-> TRUE,
          data |-> [i \in DOMAIN res.val.data |-> serializeUser(res.val.data[i])],
          pagination |-> res.val.pagination]

Route(op, input, fail, r, response) ==
    [op |-> op, input |-> input, fail |-> fail, ok |-> r.res.ok,
     response |-> response, calls |-> r.calls]

RouteCreate(input, id, fail) ==
    /\ id \notin DOMAIN users
    /\ \E r \in {createUser(users, input, id, now, fail)} :
           /\ fail <= Len(r.calls)
           /\ last' = Route("create", input, fail, r, createResponse(r.res))
           /\ users' = r.table
           /\ removed' = (IF r.res.ok THEN removed \ {id} ELSE removed)
    /\ UNCHANGED <<heap, origin, tasks, now, focus, flight, scan>>

RouteUpdate(input, fail) ==
    /\ \E r \in {updateUser(users, withActor(input, Assignee), now, fail)} :
           /\ fail <= Len(r.calls)
           /\ last' = Route("update", input, fail, r, updateResponse(r.res))
           /\ users' = r.table
    /\ UNCHANGED <<heap, origin, tasks, now, focus, flight, scan, removed>>

RouteFetch(input, fail) ==
    /\ \E order \in Orderings(Rows(users), UserOrderBy(Rows(users))) :
          \E r \in {getUsersPaginated(users, withActor(input, Assignee), order, fail)} :
              /\ fail <= Len(r.calls)
              /\ last' = Route("fetch", input, fail, r, fetchResponse(r.res))
    /\ UNCHANGED <<heap, origin, users, tasks, now, focus, flight, scan, removed>>

RouteUpdateInputs ==
    UpdateUserInputs \cup {[id |-> U1, password |-> <<"q">>]}

RouteFetchInputs == {[page |-> Num(1), limit |-> Num(n)] : n \in 1..MaxLimit}

RouteInit ==
    /\ heap = <<>>
    /\ origin = <<>>
    /\ users = EmptyTable
    /\ tasks = EmptyTable
    /\ now = 0
    /\ focus = "User"
    /\ last = NoCall
    /\ scan = NoScan
    /\ removed = {}
    /\ flight = NoFlight

RouteNext ==
    \/ \E input \in CreateUserInputs, id \in UserPool, fail \in 0..1 :
          RouteCreate(input, id, fail)
    \/ \E input \in RouteUpdateInputs, fail \in 0..3 : RouteUpdate(input, fail)
    \/ \E input \in RouteFetchInputs, fail \in 0..2 : RouteFetch(input, fail)
    \/ Tick

RouteSpec == RouteInit /\ [][RouteNext]_vars

IsRoute == last.op \in {"create", "update", "fetch"} /\ "response" \in DOMAIN last

\* C22: every user record the create, update and fetch routes return has no
\* password field, whatever users are stored and whatever the request; nor has
\* the payload of the token that create returns.
ResponsesOmitPassword ==
    (IsRoute /\ last.ok) =>
        IF last.op = "fetch"
        THEN \A i \in DOMAIN last.response.data :
                 "password" \notin DOMAIN last.response.data[i]
        ELSE /\ "password" \notin DOMAIN last.response.data
             /\ last.op = "create" => "password" \notin DOMAIN last.response.token

\* the fetch route has returned the stored users
ResponsesOmitPasswordWitness ==
    /\ IsRoute
    /\ last.op = "fetch"
    /\ last.ok
    /\ Len(last.response.data) = MaxLimit
    /\ \A id \in DOMAIN users : "password" \in DOMAIN users[id]

----------------------------------------------------------------------------
(* Further properties of the Update workflows *)

UpdateWorkflowCall(call) == call.op \in {"updateUser", "updateTask"}

\* C23: in an Update workflow, the entity passed to repository.update keeps the
\* stored value of every field the DTO does not provide, and its updatedAt is
\* the time of the update.
UnprovidedFieldsKept ==
    [][(/\ UpdateWorkflowCall(last')
        /\ last.op # last'.op \/ last # last'
        /\ last'.args # <<>>) =>
          /\ \A f \in DOMAIN Table[last'.input.id]
                        \ (DOMAIN last'.input \cup {"updatedAt"}) :
                 Serialized(last'.args[1])[f] = Table[last'.input.id][f]
          /\ Serialized(last'.args[1]).updatedAt = now]_vars

\* an Update workflow has passed to repository.update an entity for a DTO of
\* one field, later than the stored row was written
UnprovidedFieldsKeptWitness ==
    /\ UpdateWorkflowCall(last)
    /\ last.args # <<>>
    /\ DOMAIN last.input = {"id", "status"}
    /\ last.args[1].title = <<"A", "b">>
    /\ last.args[1].updatedAt > last.args[1].createdAt

\* an updateTask whose DTO decodes, for a task that has a row, with no store
\* call failing
ValidTaskUpdate ==
    /\ last.op = "updateTask"
    /\ last.fail = 0
    /\ UpdateTaskDtoDecode(last.input).ok
    /\ last.input.id \in DOMAIN tasks

\* C24: updateTask of an existing task with valid values for any of title,
\* description, status and assigneeId succeeds, and the stored task carries
\* each value given.
ValidTaskUpdateSucceeds ==
    ValidTaskUpdate =>
        /\ last.ok
        /\ \A f \in DOMAIN last.input : tasks[last.input.id][f] = last.input[f]

\* the same of the DTOs that give no description
ValidTaskUpdateWithoutDescriptionSucceeds ==
    (ValidTaskUpdate /\ "description" \notin DOMAIN last.input) =>
        /\ last.ok
        /\ \A f \in DOMAIN last.input : tasks[last.input.id][f] = last.input[f]

----------------------------------------------------------------------------
(* Further properties of the read workflows *)

\* getTasksPaginated has answered a request of a page >= 1 and a limit >= 1
TasksPageAnswered ==
    /\ last.op = "getTasksPaginated"
    /\ last.ok
    /\ PaginationDtoDecode(last.input).ok
    /\ last.input.page.v >= 1
    /\ last.input.limit.v >= 1

\* C25: getTasksPaginated with a valid page and limit returns at most limit
\* tasks: those at positions (page - 1) * limit to page * limit - 1 of the
\* stored tasks, in an order of the store.
TasksPageIsSlice ==
    TasksPageAnswered =>
        /\ Len(last.res.val) <= last.input.limit.v
        /\ \E order \in Orderings(Rows(tasks), {}) :
              [i \in DOMAIN last.res.val |-> Serialized(last.res.val[i])]
                  = Page(order, last.input.limit.v,
                         calculateOffset(last.input.page.v, last.input.limit.v))

\* getTasksPaginated with a valid page and limit returns every stored task
TasksPageIsEverything ==
    TasksPageAnswered =>
        \E order \in Orderings(Rows(tasks), {}) :
            [i \in DOMAIN last.res.val |-> Serialized(last.res.val[i])] = order

----------------------------------------------------------------------------
(* Two callers over one store: every store call is a round trip of its own,
   and the calls of the two callers interleave *)

Callers == {1, 2}

Idle == [pc |-> "idle"]

EnsureExists(id) ==
    IF focus = "User" THEN UserEnsureExists(users, id, 0, 1)
    ELSE TaskEnsureExists(tasks, id, 0, 1)

\* the db.update of repository.update, after ensureExists answered ex
UpdateRow(ex, e) ==
    IF focus = "User" THEN UserUpdateRow(ex, users, e, 0)
    ELSE TaskUpdateRow(ex, tasks, e, 0)

\* the db.delete of deleteById, after fetchById answered f
DeleteRow(f, id) ==
    IF focus = "User" THEN UserDeleteRow(f, users, id, 0)
    ELSE TaskDeleteRow(f, tasks, id, 0)

UpdateDtoDecode(input) ==
    IF focus = "User" THEN UpdateUserDtoDecode(input) ELSE UpdateTaskDtoDecode(input)

WorkflowNotFound(id) == IF focus = "User" THEN UserNotFound(id) ELSE TaskNotFound(id)

DataQuerySnapshot(counted, table) == counted

\* the rows the data query of a paginated read sees: those of the store when
\* it runs, whatever the count query saw before
DataQuery(counted, table) == table

\* the result of a paginated read whose count query saw the table counted and
\* whose data query returned the rows in the order
PaginatedRead(counted, params, order) ==
    IF focus = "User" THEN UserFetchPaginated(counted, params, order, 0)
    ELSE TaskSearch(counted, params, order, 0)

Selectable(table, params) ==
    IF focus = "User" THEN Rows(table) ELSE Matching(table, params)

OrderBy(rows) == IF focus = "User" THEN UserOrderBy(rows) ELSE TaskOrderBy(rows)

Step(c, record) == flight' = [flight EXCEPT ![c] = record]

Done(c, op, arg, res) == [pc |-> "done", op |-> op, arg |-> arg, res |-> res]

\* repository.add: the insert
AddInsert(c, id) ==
    /\ flight[c] = Idle
    /\ \E r \in {Add(NewEntity(id, now), 0)} :
          /\ SetTable(r.table)
          /\ Step(c, Done(c, "add", id, r.res))
    /\ UNCHANGED <<heap, origin, now, focus, last, scan, removed>>

\* repository.deleteById: the select of fetchById
DeleteSelect(c, id) ==
    /\ flight[c] = Idle
    /\ \E f \in {FetchById(id, 0)} :
          IF f.res.ok /\ f.res.val # None
          THEN Step(c, [pc |-> "delete", op |-> "deleteById", arg |-> id, seen |-> f])
          ELSE Step(c, Done(c, "deleteById", id, DeleteRow(f, id).res))
    /\ UNCHANGED <<heap, origin, users, tasks, now, focus, last, scan, removed>>

\* repository.deleteById: the db.delete
DeleteDelete(c) ==
    /\ flight[c].pc = "delete"
    /\ \E r \in {DeleteRow(flight[c].seen, flight[c].arg)} :
          /\ SetTable(r.table)
          /\ Step(c, Done(c, "deleteById", flight[c].arg, r.res))
    /\ UNCHANGED <<heap, origin, now, focus, last, scan, removed>>

\* repository.update: the select of ensureExists
UpdateExists(c, id) ==
    /\ flight[c] = Idle
    /\ \E e \in {NewEntity(id, now)} : \E ex \in {EnsureExists(id)} :
          IF ex.res.ok
          THEN Step(c, [pc |-> "write", op |-> "update", arg |-> id, entity |-> e,
                        ex |-> ex])
          ELSE Step(c, [pc |-> "done", op |-> "update", arg |-> id,
                        res |-> UpdateRow(ex, e).res, hit |-> FALSE])
    /\ UNCHANGED <<heap, origin, users, tasks, now, focus, last, scan, removed>>

\* repository.update: the db.update; hit tells whether a row had the id
UpdateWrite(c) ==
    /\ flight[c].pc = "write"
    /\ flight[c].op = "update"
    /\ \E r \in {UpdateRow(flight[c].ex, flight[c].entity)} :
          /\ SetTable(r.table)
          /\ Step(c, [pc |-> "done", op |-> "update", arg |-> flight[c].arg,
                      res |-> r.res, hit |-> flight[c].arg \in DOMAIN Table])
    /\ UNCHANGED <<heap, origin, now, focus, last, scan, removed>>

\* the Update workflow: repo.fetchById, then serialize, merge and create
WorkflowFetch(c, input) ==
    /\ flight[c] = Idle
    /\ \E f \in {FetchById(input.id, 0)} :
          IF f.res.ok /\ f.res.val # None
          THEN Step(c, [pc |-> "exists", op |-> "updateWorkflow", arg |-> input,
                        entity |-> EntityCreate(focus,
                                      Merge(Serialized(f.res.val.value),
                                            UpdateDtoDecode(input).val, now)).val])
          ELSE Step(c, Done(c, "updateWorkflow", input, WorkflowNotFound(input.id)))
    /\ UNCHANGED <<heap, origin, users, tasks, now, focus, last, scan, removed>>

\* the Update workflow: the select of ensureExists in repo.update
WorkflowExists(c) ==
    /\ flight[c].pc = "exists"
    /\ \E ex \in {EnsureExists(flight[c].arg.id)} :
          IF ex.res.ok
          THEN Step(c, [pc |-> "write", op |-> "updateWorkflow", arg |-> flight[c].arg,
                        entity |-> flight[c].entity, ex |-> ex])
          ELSE Step(c, Done(c, "updateWorkflow", flight[c].arg,
                            WorkflowNotFound(flight[c].arg.id)))
    /\ UNCHANGED <<heap, origin, users, tasks, now, focus, last, scan, removed>>

\* the Update workflow: the db.update of repo.update, and the closing mapError
WorkflowWrite(c) ==
    /\ flight[c].pc = "write"
    /\ flight[c].op = "updateWorkflow"
    /\ \E r \in {UpdateRow(flight[c].ex, flight[c].entity)} :
          /\ SetTable(r.table)
          /\ Step(c, Done(c, "updateWorkflow", flight[c].arg,
                          MapError(r.res, WorkflowNotFound(flight[c].arg.id))))
    /\ UNCHANGED <<heap, origin, now, focus, last, scan, removed>>

\* a paginated read: the count query
ReadCount(c, params) ==
    /\ flight[c] = Idle
    /\ Step(c, [pc |-> "data", op |-> "read", arg |-> params, counted |-> Table])
    /\ UNCHANGED <<heap, origin, users, tasks, now, focus, last, scan, removed>>

\* a paginated read: the data query, then the result
ReadData(c) ==
    /\ flight[c].pc = "data"
    /\ \E seen \in {DataQuery(flight[c].counted, Table)} :
        \E order \in Orderings(Selectable(seen, flight[c].arg),
                               OrderBy(Selectable(seen, flight[c].arg))) :
          Step(c, [pc |-> "done", op |-> "read", arg |-> flight[c].arg,
                   res |-> PaginatedRead(flight[c].counted, flight[c].arg, order).res,
                   counted |-> flight[c].counted, selected |-> Table])
    /\ UNCHANGED <<heap, origin, users, tasks, now, focus, last, scan, removed>>

RaceDtos ==
    IF focus = "User"
    THEN {[id |-> U1, name |-> NameB], [id |-> U1, email |-> <<"e">>]}
    ELSE {[id |-> T1, title |-> <<"b">>], [id |-> T1, status |-> "DONE"]}

RaceReads ==
    {[page |-> 1, limit |-> MaxLimit, text |-> NoFilter.text,
      status |-> NoFilter.status, assigneeId |-> NoFilter.assigneeId,
      createdFrom |-> NoFilter.createdFrom, createdTo |-> NoFilter.createdTo]}

RaceStores ==
    {[id \in D |-> Serialized(NewEntity(id, 0))] : D \in SUBSET Pool}

RaceInit ==
    /\ heap = <<>>
    /\ origin = <<>>
    /\ now = 0
    /\ last = NoCall
    /\ scan = NoScan
    /\ removed = {}
    /\ focus \in {"User", "Task"}
    /\ users \in (IF focus = "User" THEN RaceStores ELSE {EmptyTable})
    /\ tasks \in (IF focus = "Task" THEN RaceStores ELSE {EmptyTable})
    /\ flight = [c \in Callers |-> Idle]

RaceNext ==
    \/ \E c \in Callers, id \in Pool : AddInsert(c, id)
    \/ \E c \in Callers, id \in Pool : DeleteSelect(c, id)
    \/ \E c \in Callers : DeleteDelete(c)
    \/ \E c \in Callers, id \in Pool : UpdateExists(c, id)
    \/ \E c \in Callers : UpdateWrite(c)
    \/ \E c \in Callers, input \in RaceDtos : WorkflowFetch(c, input)
    \/ \E c \in Callers : WorkflowExists(c)
    \/ \E c \in Callers : WorkflowWrite(c)
    \/ \E c \in Callers, params \in RaceReads : ReadCount(c, params)
    \/ \E c \in Callers : ReadData(c)
    \/ Tick

RaceSpec == RaceInit /\ [][RaceNext]_vars

HasDone(c, op) == flight[c].pc = "done" /\ flight[c].op = op

\* C26: a paginated read takes its total from the store as the count query
\* saw it and its rows from the store as the data query saw it, two round
\* trips with no snapshot in common; a write that commits between them makes
\* the total disagree with the rows.
ReadsTwoSnapshots ==
    \A c \in Callers :
        (HasDone(c, "read") /\ flight[c].res.ok) =>
            /\ flight[c].res.val.pagination.total
                   = Cardinality(Selectable(flight[c].counted, flight[c].arg))
            /\ \E order \in Orderings(Selectable(flight[c].selected, flight[c].arg),
                                      OrderBy(Selectable(flight[c].selected,
                                                         flight[c].arg))) :
                  [i \in DOMAIN flight[c].res.val.data |->
                      Serialized(flight[c].res.val.data[i])]
                      = Page(order, flight[c].arg.limit,
                             calculateOffset(flight[c].arg.page, flight[c].arg.limit))

\* a read of the first page has returned a total that is not the number of
\* its rows, though the page has room for every row
ReadsTwoSnapshotsWitness ==
    \E c \in Callers :
        /\ HasDone(c, "read")
        /\ flight[c].res.ok
        /\ flight[c].counted # flight[c].selected
        /\ flight[c].res.val.pagination.total # Len(flight[c].res.val.data)
        /\ flight[c].res.val.pagination.total <= flight[c].arg.limit

\* C27: repository update reports success only if a row with the identifier was
\* overwritten, also when a deleteById of the identifier runs between its
\* existence check and its write.
UpdateSuccessMeansOverwritten ==
    \A c \in Callers :
        (HasDone(c, "update") /\ flight[c].res.ok) =>
            flight[c].hit

\* the deleteById calls that succeeded
Deleters(id) ==
    {c \in Callers : HasDone(c, "deleteById") /\ flight[c].arg = id /\ flight[c].res.ok}

\* C28: of two concurrent deleteById calls for one existing identifier, exactly
\* one succeeds and returns the entity; the other fails as not found.
OneDeleteSucceeds ==
    \A id \in UserPool \cup TaskPool :
        (/\ \A c \in Callers : HasDone(c, "deleteById") /\ flight[c].arg = id
         /\ Deleters(id) # {}) =>
            /\ Cardinality(Deleters(id)) = 1
            /\ \A c \in Deleters(id) : flight[c].res.val.id = id
            /\ \A c \in Callers \ Deleters(id) : IsMutationError(flight[c].res)

\* C29: when two Update workflows on one entity, each providing a different
\* field, have both completed, the stored record has both values provided.
NoUpdateIsLost ==
    (/\ \A c \in Callers : HasDone(c, "updateWorkflow") /\ flight[c].res.ok
     /\ flight[1].arg.id = flight[2].arg.id
     /\ DOMAIN flight[1].arg # DOMAIN flight[2].arg) =>
        \A c \in Callers : \A f \in DOMAIN flight[c].arg :
            Table[flight[c].arg.id][f] = flight[c].arg[f]

\* an Update workflow that completes while no other call is in flight stores
\* the value it provides
LoneUpdateIsStored ==
    \A c \in Callers :
        (/\ HasDone(c, "updateWorkflow")
         /\ flight[c].res.ok
         /\ \A d \in Callers \ {c} : flight[d] = Idle) =>
            \A f \in DOMAIN flight[c].arg : Table[flight[c].arg.id][f] = flight[c].arg[f]

----------------------------------------------------------------------------
(* Store failures within one workflow *)

IsWorkflow ==
    last.op \in {"createUser", "createTask", "updateUser", "updateTask",
                 "getUserById", "getTaskById", "deleteUserById", "deleteTaskById"}

\* C30: once a store call of a workflow fails, the workflow fails: the call
\* that failed is the last store call it makes, and it is made once.
StoreFailureEndsWorkflow ==
    (IsWorkflow /\ last.fail > 0) =>
        /\ ~last.ok
        /\ Len(last.calls) = last.fail

\* updateUser whose fetch succeeded and whose existence check the store
\* rejected has made no further call
StoreFailureEndsWorkflowWitness ==
    /\ last.op = "updateUser"
    /\ last.fail = 2
    /\ ~last.ok
    /\ last.calls = <<"select", "select">>
    /\ last.input.id \in DOMAIN users

====
